---- MODULE Spec2Model ----
(***************************************************************************)
(* A model of the data anonymization pipeline:                             *)
(*   - config_loader.py      RuleConfig validation and ConfigLoader.load   *)
(*   - anonymizer.py         the five strategies and Anonymizer.anonymize  *)
(*   - privacy_validator.py  k-anonymity, l-diversity, re-identification   *)
(*                                                                         *)
(* The specifications share the variables: SpecConfig (the loader),        *)
(* SpecStrategy (a strategy function or _anonymize_column called           *)
(* directly), SpecBinning, SpecRedact and SpecPseudonymize (one strategy   *)
(* over a wider range of inputs), SpecConcurrent (two runs inside          *)
(* pseudonymize_strategy at once), SpecAnon (the anonymizer over a loaded  *)
(* configuration), SpecRepeat and SpecStatistics (anonymize called again   *)
(* and again, with other runs or get_statistics in between) and            *)
(* SpecValidator (the privacy validator).  A subsystem a specification     *)
(* does not exercise stays in its constructed state.                       *)
(***************************************************************************)
EXTENDS Integers, Sequences, FiniteSets, TLC

VARIABLES
    \* ConfigLoader (config_loader.py)
    configFile,      \* the YAML document at config_path
    _raw_config,     \* None, or what yaml.safe_load returned
    _rules,          \* None, or the mapping pii_type -> RuleConfig
    _global_config,  \* None, or the GlobalConfig
    loadOutcome,     \* how the last load() call ended, as its caller sees it
    \* AnonymizationStrategies (class-level state) and direct strategy calls
    Faker,           \* whether the faker import succeeded (module global)
    _faker_cache,    \* locale -> generator state
    _pseudo_cache,   \* <<locale, str(value)>> -> fake value
    strategyCall,    \* the last direct call of a strategy function and its result
    runs,            \* per concurrent run: where its pseudonymize_strategy call stands
    \* Anonymizer.anonymize
    heap,            \* object id -> DataFrame contents
    dfRef,           \* the caller's input DataFrame
    snapshot,        \* the input's contents when anonymize was called
    column_mapping,  \* the column_mapping argument
    resultRef,       \* the local `result` of anonymize
    colIdx,          \* position of the `for column in df.columns` loop
    _stats,          \* Anonymizer._stats
    pc,              \* where the anonymize call stands
    returned,        \* what the caller got back
    handed,          \* the record the last get_statistics call gave the caller
    \* PrivacyValidator
    thresholds,      \* config['privacy_thresholds']
    df_anonymized,   \* the dataset under validation
    results          \* what validate gave its caller

configVars == <<configFile, _raw_config, _rules, _global_config, loadOutcome>>
strategyVars == <<Faker, _faker_cache, _pseudo_cache, strategyCall, runs>>
anonVars ==
    <<heap, dfRef, snapshot, column_mapping, resultRef, colIdx, _stats, pc, returned, handed>>
validatorVars == <<thresholds, df_anonymized, results>>
vars == <<configVars, strategyVars, anonVars, validatorVars>>

(***************************************************************************)
(* Values.  A Python value is a record of one shape, so that any two       *)
(* values can be compared: kind says which field carries it.  Text is a    *)
(* sequence of one-character strings.                                      *)
(***************************************************************************)
Null == [kind |-> "null", num |-> 0, str |-> <<>>]
IntV(n) == [kind |-> "int", num |-> n, str |-> <<>>]
FloatV(n) == [kind |-> "float", num |-> n, str |-> <<>>]
\* the float n + 0.5, for n >= 0: the digit after the point is kept in str
HalfV(n) == [kind |-> "float", num |-> n, str |-> <<"5">>]
BoolV(b) == [kind |-> "bool", num |-> IF b THEN 1 ELSE 0, str |-> <<>>]
StrV(s) == [kind |-> "str", num |-> 0, str |-> s]

\* pd.isna(value)
IsNa(v) == v.kind = "null"

\* isinstance(v, int): bool is a subclass of int
IsInt(v) == v.kind \in {"int", "bool"}

\* isinstance(v, (int, float))
IsNumber(v) == v.kind \in {"int", "bool", "float"}

EmptyMap == [k \in {} |-> Null]

\* dict.get(key): None when the key is absent
Get(d, key) == IF key \in DOMAIN d THEN d[key] ELSE Null

\* dict.get(key, default)
GetOr(d, key, default) == IF key \in DOMAIN d THEN d[key] ELSE default

\* the literals the code compares against
SHA256 == <<"s", "h", "a", "2", "5", "6">>
SHA512 == <<"s", "h", "a", "5", "1", "2">>
MD5 == <<"m", "d", "5">>
REDACTED == <<"[", "R", "E", "D", "A", "C", "T", "E", "D", "]">>
EN_US == <<"e", "n", "_", "U", "S">>

\* class AnonymizationStrategy(Enum)
AnonymizationStrategy == {"hash", "redact_full", "redact_partial", "pseudonymize", "generalize"}

\* ConfigLoader.ALLOWED_STRATEGIES
ALLOWED_STRATEGIES == AnonymizationStrategy

allowed_algorithms == {SHA256, SHA512, MD5}
allowed_granularities == {<<"d", "a", "y">>, <<"w", "e", "e", "k">>, <<"m", "o", "n", "t", "h">>,
                          <<"q", "u", "a", "r", "t", "e", "r">>, <<"y", "e", "a", "r">>}
allowed_levels == {<<"f", "u", "l", "l">>, <<"s", "t", "r", "e", "e", "t">>, <<"c", "i", "t", "y">>,
                   <<"s", "t", "a", "t", "e">>, <<"c", "o", "u", "n", "t", "r", "y">>}

(***************************************************************************)
(* RuleConfig.validate.  The outcome of a call is a record: exc is "none"  *)
(* when it returned, else the exception's class; msg is the part of the    *)
(* message the tests match.                                                *)
(***************************************************************************)
Returns == [exc |-> "none", msg |-> ""]
Raises(exc, msg) == [exc |-> exc, msg |-> msg]

\* the parameter sets _validate_generalize_parameters accepts
valid_sets == {{"bin_size", "min_value", "max_value"}, {"precision"}, {"granularity"},
               {"level"}, {"octets"}}

_validate_generalize_parameters(parameters) ==
    IF \E valid_set \in valid_sets : valid_set \subseteq DOMAIN parameters
    THEN Returns
    ELSE Raises("ConfigurationError", "missing required parameters")

_get_required_parameters(strategy) ==
    CASE strategy = "redact_partial" -> {"visible_chars", "mask_char"}
      [] strategy = "pseudonymize" -> {"seed_based"}
      [] strategy = "hash" -> {"algorithm"}
      [] OTHER -> {}

\* whether min_val >= max_val can be evaluated: None cannot be ordered (the
\* values a document gives min_value and max_value here are numbers)
CanOrder(a, b) == IsNumber(a) /\ IsNumber(b)

_validate_generalize_values(p) ==
    LET bin_size == Get(p, "bin_size")
        min_val == Get(p, "min_value")
        max_val == Get(p, "max_value")
        precision == Get(p, "precision")
        octets == Get(p, "octets")
    IN  IF "bin_size" \in DOMAIN p /\ (~IsNumber(bin_size) \/ bin_size.num <= 0)
        THEN Raises("ConfigurationError", "Invalid bin_size")
        ELSE IF "bin_size" \in DOMAIN p /\ ~CanOrder(min_val, max_val)
        THEN Raises("TypeError", ">= not supported")
        ELSE IF "bin_size" \in DOMAIN p /\ min_val.num >= max_val.num
        THEN Raises("ConfigurationError", "Invalid range")
        ELSE IF "precision" \in DOMAIN p /\ (~IsInt(precision) \/ precision.num <= 0)
        THEN Raises("ConfigurationError", "Invalid precision")
        ELSE IF "octets" \in DOMAIN p /\ (~IsInt(octets) \/ octets.num < 1 \/ octets.num > 4)
        THEN Raises("ConfigurationError", "Invalid octets")
        ELSE IF "granularity" \in DOMAIN p /\ p["granularity"].str \notin allowed_granularities
        THEN Raises("ConfigurationError", "Invalid granularity")
        ELSE IF "level" \in DOMAIN p /\ p["level"].str \notin allowed_levels
        THEN Raises("ConfigurationError", "Invalid level")
        ELSE Returns

_validate_parameter_values(strategy, p) ==
    CASE strategy = "generalize" -> _validate_generalize_values(p)
      [] strategy = "redact_partial" ->
            LET visible == Get(p, "visible_chars")
                mask_char == Get(p, "mask_char")
            IN  IF ~IsInt(visible) \/ visible.num < 0
                THEN Raises("ConfigurationError", "Invalid visible_chars")
                ELSE IF mask_char.kind # "str" \/ Len(mask_char.str) # 1
                THEN Raises("ConfigurationError", "Invalid mask_char")
                ELSE Returns
      [] strategy = "hash" ->
            LET algorithm == Get(p, "algorithm")
            IN  IF algorithm.kind # "str" \/ algorithm.str \notin allowed_algorithms
                THEN Raises("ConfigurationError", "Invalid hash algorithm")
                ELSE Returns
      [] OTHER -> Returns

\* RuleConfig.validate
validate(strategy, parameters) ==
    LET presence ==
            IF strategy = "generalize"
            THEN _validate_generalize_parameters(parameters)
            ELSE IF _get_required_parameters(strategy) \ DOMAIN parameters # {}
            THEN Raises("ConfigurationError", "missing required parameters")
            ELSE Returns
    IN  IF presence.exc # "none" THEN presence
        ELSE _validate_parameter_values(strategy, parameters)

(***************************************************************************)
(* ConfigLoader.  A document is a record: form says whether the file could *)
(* be read and parsed and whether its top level is a dictionary; rules is  *)
(* the ordered content of its 'rules' dictionary, one entry per PII type.  *)
(***************************************************************************)
None == [isNone |-> TRUE, val |-> EmptyMap]
Some(v) == [isNone |-> FALSE, val |-> v]

\* @dataclass GlobalConfig, with its defaults
GlobalConfig(global_dict) ==
    [handle_nulls |-> GetOr(global_dict, "handle_nulls", BoolV(TRUE)).num = 1,
     null_replacement |-> Get(global_dict, "null_replacement"),
     preserve_data_types |-> GetOr(global_dict, "preserve_data_types", BoolV(TRUE)).num = 1,
     case_sensitive |-> GetOr(global_dict, "case_sensitive", BoolV(FALSE)).num = 1]

\* @dataclass RuleConfig
RuleConfig(pii_type, strategy, parameters) ==
    [pii_type |-> pii_type, strategy |-> strategy, parameters |-> parameters]

_validate_schema(doc) ==
    IF doc.form # "dict" THEN Raises("ConfigurationError", "must be a dictionary")
    ELSE IF ~doc.hasRules THEN Raises("ConfigurationError", "missing required keys")
    ELSE IF doc.version = "notstr" THEN Raises("ConfigurationError", "Version must be a string")
    ELSE Returns

\* one iteration of the loop of _parse_rules: what rule.validate() and the
\* checks before it say of one entry
ParseRule(rule_data) ==
    IF ~rule_data.isdict THEN Raises("ConfigurationError", "must be a dictionary")
    ELSE IF rule_data.strategy = "" THEN Raises("ConfigurationError", "missing 'strategy' field")
    ELSE IF rule_data.strategy \notin ALLOWED_STRATEGIES
    THEN Raises("ConfigurationError", "Unknown strategy")
    ELSE validate(rule_data.strategy, rule_data.parameters)

\* the loop of _parse_rules from entry i on, self._rules being `rules`:
\* the mapping it leaves in self._rules and how it ended
RECURSIVE ParseRulesFrom(_, _, _)
ParseRulesFrom(entries, i, rules) ==
    IF i > Len(entries) THEN [rules |-> rules, outcome |-> Returns]
    ELSE LET rule_data == entries[i]
             checked == ParseRule(rule_data)
         IN  IF checked.exc # "none" THEN [rules |-> rules, outcome |-> checked]
             ELSE ParseRulesFrom(entries, i + 1,
                    [k \in DOMAIN rules \cup {rule_data.pii_type} |->
                        IF k = rule_data.pii_type
                        THEN RuleConfig(k, rule_data.strategy, rule_data.parameters)
                        ELSE rules[k]])

\* _parse_rules: self._rules after the call (None when it was not yet assigned)
\* and how the call ended
_parse_rules(doc, rulesBefore) ==
    IF ~doc.rulesIsDict
    THEN [rules |-> rulesBefore, outcome |-> Raises("ConfigurationError", "'rules' must be a dictionary")]
    ELSE LET parsed == ParseRulesFrom(doc.rules, 1, EmptyMap)
         IN  [rules |-> Some(parsed.rules), outcome |-> parsed.outcome]

_parse_global_config(doc, globalBefore) ==
    IF ~doc.globalIsDict
    THEN [global |-> globalBefore, outcome |-> Raises("ConfigurationError", "'global' must be a dictionary")]
    ELSE [global |-> [isNone |-> FALSE, val |-> GlobalConfig(doc.global)], outcome |-> Returns]

NoGlobal == [isNone |-> TRUE, val |-> GlobalConfig(EmptyMap)]

\* ConfigLoader.load as a function of the file and the loader's attributes:
\* the attributes after the call and how the call ended
load(file, raw, rules, global) ==
    IF file.form \in {"missing_file", "bad_yaml"}
    THEN [raw |-> raw, rules |-> rules, global |-> global,
          outcome |-> Raises("ConfigurationError",
                        IF file.form = "missing_file" THEN "Configuration file not found"
                        ELSE "Invalid YAML syntax")]
    ELSE LET schema == _validate_schema(file)
             parsed == _parse_rules(file, rules)
             glob == _parse_global_config(file, global)
         IN  IF schema.exc # "none"
             THEN [raw |-> Some(file), rules |-> rules, global |-> global, outcome |-> schema]
             ELSE IF parsed.outcome.exc # "none"
             THEN [raw |-> Some(file), rules |-> parsed.rules, global |-> global,
                   outcome |-> parsed.outcome]
             ELSE [raw |-> Some(file), rules |-> parsed.rules, global |-> glob.global,
                   outcome |-> glob.outcome]

(***************************************************************************)
(* AnonymizationStrategies.  A strategy call yields a record: exc is       *)
(* "none" and val the value returned, or exc is the exception's class.     *)
(***************************************************************************)
Ok(v) == [exc |-> "none", msg |-> "", val |-> v]
Err(exc, msg) == [exc |-> exc, msg |-> msg, val |-> Null]

DigitChars == <<"0", "1", "2", "3", "4", "5", "6", "7", "8", "9">>

\* str(n) of a non-negative int
RECURSIVE NatToStr(_)
NatToStr(n) == IF n < 10 THEN <<DigitChars[n + 1]>> ELSE NatToStr(n \div 10) \o <<DigitChars[(n % 10) + 1]>>

\* str(n) of an int
IntToStr(n) == IF n < 0 THEN <<"-">> \o NatToStr(-n) ELSE NatToStr(n)

\* str(value)
StrOf(v) ==
    CASE v.kind = "int" -> IntToStr(v.num)
      [] v.kind = "float" -> IntToStr(v.num) \o <<".">> \o (IF v.str = <<>> THEN <<"0">> ELSE v.str)
      [] v.kind = "bool" -> IF v.num = 1 THEN <<"T", "r", "u", "e">> ELSE <<"F", "a", "l", "s", "e">>
      [] v.kind = "str" -> v.str
      [] OTHER -> <<"N", "o", "n", "e">>

\* bool(value)
Truthy(v) ==
    CASE v.kind \in {"int", "float", "bool"} -> v.num # 0
      [] v.kind = "str" -> v.str # <<>>
      [] OTHER -> FALSE

\* hashlib.<algorithm>(s.encode()).hexdigest(): a digest is a text that names the
\* algorithm and the input it was taken over, so that distinct inputs or
\* algorithms give distinct digests
hexdigest(algorithm, s) == <<"#">> \o algorithm \o <<":">> \o s

\* s[:n]
Prefix(s, n) == SubSeq(s, 1, IF n < Len(s) THEN n ELSE Len(s))

\* s[-n:] for 0 < n < len(s)
Suffix(s, n) == SubSeq(s, Len(s) - n + 1, Len(s))

\* s * n
RECURSIVE Repeat(_, _)
Repeat(s, n) == IF n <= 0 THEN <<>> ELSE s \o Repeat(s, n - 1)

\* a variant of hash_strategy that takes the digest of the value alone,
\* whatever salt says
hash_unsalted(value, parameters) ==
    IF IsNa(value) THEN Ok(value)
    ELSE LET algorithm == GetOr(parameters, "algorithm", StrV(SHA256))
         IN  IF algorithm.kind = "str" /\ algorithm.str \in {SHA256, SHA512, MD5}
             THEN Ok(StrV(hexdigest(algorithm.str, StrOf(value))))
             ELSE Err("AnonymizationError", "Unsupported hash algorithm")

\* AnonymizationStrategies.hash_strategy
hash_strategy(value, parameters) ==
    IF IsNa(value) THEN Ok(value)
    ELSE LET str_value == StrOf(value)
             salted == IF Truthy(GetOr(parameters, "salt", BoolV(FALSE)))
                       THEN Prefix(hexdigest(MD5, str_value), 8) \o str_value
                       ELSE str_value
             algorithm == GetOr(parameters, "algorithm", StrV(SHA256))
         IN  IF algorithm.kind = "str" /\ algorithm.str \in {SHA256, SHA512, MD5}
             THEN Ok(StrV(hexdigest(algorithm.str, salted)))
             ELSE Err("AnonymizationError", "Unsupported hash algorithm")

redact_full_strategy(value, parameters) ==
    IF IsNa(value) THEN Ok(value)
    ELSE Ok(GetOr(parameters, "replacement", StrV(REDACTED)))

\* a variant of redact_partial_strategy that keeps the first visible_chars
\* characters instead of the last
redact_partial_keep_first(value, parameters) ==
    IF IsNa(value) THEN Ok(value)
    ELSE LET str_value == StrOf(value)
             visible_chars == GetOr(parameters, "visible_chars", IntV(0))
             mask_char == GetOr(parameters, "mask_char", StrV(<<"*">>))
         IN  IF ~IsNumber(visible_chars) THEN Err("TypeError", "<= not supported")
             ELSE IF visible_chars.num <= 0
             THEN Ok(StrV(Repeat(mask_char.str, Len(str_value))))
             ELSE IF visible_chars.num >= Len(str_value) THEN Ok(StrV(str_value))
             ELSE Ok(StrV(Prefix(str_value, visible_chars.num)
                          \o Repeat(mask_char.str, Len(str_value) - visible_chars.num)))

\* AnonymizationStrategies.redact_partial_strategy
\* (mask_char is a text in every rule and call here)
redact_partial_strategy(value, parameters) ==
    IF IsNa(value) THEN Ok(value)
    ELSE LET str_value == StrOf(value)
             visible_chars == GetOr(parameters, "visible_chars", IntV(0))
             mask_char == GetOr(parameters, "mask_char", StrV(<<"*">>))
         IN  IF ~IsNumber(visible_chars) THEN Err("TypeError", "<= not supported")
             ELSE IF visible_chars.num <= 0
             THEN Ok(StrV(Repeat(mask_char.str, Len(str_value))))
             ELSE IF visible_chars.num >= Len(str_value) THEN Ok(StrV(str_value))
             ELSE Ok(StrV(Repeat(mask_char.str, Len(str_value) - visible_chars.num)
                          \o Suffix(str_value, visible_chars.num)))

\* float(value): the number, or no number for a text that is not one (texts
\* here are digits with an optional sign, or no number at all)
IsDigits(s) == s # <<>> /\ \A i \in DOMAIN s : \E d \in DOMAIN DigitChars : DigitChars[d] = s[i]
DigitOf(c) == (CHOOSE d \in DOMAIN DigitChars : DigitChars[d] = c) - 1

RECURSIVE DigitsToNat(_)
DigitsToNat(s) == IF s = <<>> THEN 0 ELSE DigitsToNat(SubSeq(s, 1, Len(s) - 1)) * 10 + DigitOf(s[Len(s)])

CanFloat(v) ==
    \/ IsNumber(v)
    \/ v.kind = "str" /\ (IsDigits(v.str) \/ (Len(v.str) > 1 /\ v.str[1] = "-" /\ IsDigits(Tail(v.str))))

ToFloat(v) ==
    IF IsNumber(v) THEN v.num
    ELSE IF v.str[1] = "-" THEN -DigitsToNat(Tail(v.str))
    ELSE DigitsToNat(v.str)

\* int(a / b): the quotient truncated towards zero
TruncDiv(a, b) ==
    IF (a >= 0) = (b > 0) THEN (IF a >= 0 THEN a ELSE -a) \div (IF b > 0 THEN b ELSE -b)
    ELSE -((IF a >= 0 THEN a ELSE -a) \div (IF b > 0 THEN b ELSE -b))

Max(a, b) == IF a >= b THEN a ELSE b
Min(a, b) == IF a <= b THEN a ELSE b

\* twice float(value), which is an integer for every value here
Twice(v) == IF v.kind = "float" /\ v.str # <<>> THEN 2 * v.num + 1 ELSE 2 * ToFloat(v)

\* the bin of generalize_strategy: numeric2 is twice numeric_value, the
\* parameters are integers
generalize_bin(numeric2, bin_size, min_value, max_value) ==
    LET clamped2 == Max(2 * min_value, Min(2 * max_value, numeric2))
        bin_index == TruncDiv(clamped2 - 2 * min_value, 2 * bin_size)
        bin_start == min_value + (bin_index * bin_size)
        bin_end == bin_start + bin_size - 1
    IN  IF clamped2 = 2 * max_value
        THEN [bin_start |-> max_value - bin_size + 1, bin_end |-> max_value]
        ELSE [bin_start |-> bin_start, bin_end |-> bin_end]

\* f"{int(bin_start)}-{int(bin_end)}"
RangeLabel(bin) == StrV(IntToStr(bin.bin_start) \o <<"-">> \o IntToStr(bin.bin_end))

generalize_strategy(value, parameters) ==
    IF IsNa(value) THEN Ok(value)
    ELSE IF ~CanFloat(value)
    THEN Err("AnonymizationError", "Generalization requires numeric value")
    ELSE LET bin_size == Get(parameters, "bin_size")
             min_value == Get(parameters, "min_value")
             max_value == Get(parameters, "max_value")
         IN  IF ~IsNumber(max_value) \/ ~IsNumber(min_value) \/ ~IsNumber(bin_size)
             THEN Err("TypeError", "not supported between instances of 'float' and 'NoneType'")
             ELSE IF bin_size.num = 0 THEN Err("ZeroDivisionError", "division by zero")
             ELSE Ok(RangeLabel(generalize_bin(Twice(value), bin_size.num, min_value.num,
                                               max_value.num)))

(***************************************************************************)
(* Pseudonymization reads and writes the class-level caches.  st is the    *)
(* state a call runs in: whether the faker import succeeded, _faker_cache  *)
(* (locale -> generator) and _pseudo_cache.  A generator is the seed it    *)
(* was last seeded with and the number of values drawn from it since; a    *)
(* generator never seeded draws from operating-system entropy.             *)
(***************************************************************************)
StrategyState(faker, faker_cache, pseudo_cache) ==
    [Faker |-> faker, _faker_cache |-> faker_cache, _pseudo_cache |-> pseudo_cache]

\* what a generator not yet seeded may have been seeded with by the system
EntropySeeds == {<<"?", "0">>, <<"?", "1">>}

\* Faker(locale), a generator not yet seeded by the program
NewFaker(entropy) == [seed |-> entropy, draws |-> 0]

\* faker.seed_instance(seed)
seed_instance(seed) == [seed |-> seed, draws |-> 0]

\* faker.name(): the value is fixed by the locale, the seed and the draws made
\* since the seeding
name(locale, faker) ==
    StrV(<<"@">> \o locale \o <<"/">> \o faker.seed \o <<"/">> \o NatToStr(faker.draws))

Put(d, key, v) == [k \in DOMAIN d \cup {key} |-> IF k = key THEN v ELSE d[k]]

\* a strategy call's result together with the state it leaves
Outcome(res, st) == [exc |-> res.exc, msg |-> res.msg, val |-> res.val, st |-> st]

\* a variant of pseudonymize_strategy that looks for Faker before it looks at
\* the value
pseudonymize_faker_first(value, parameters, st, entropy) ==
    IF ~st.Faker
    THEN Outcome(Err("AnonymizationError", "Faker library required for pseudonymization"), st)
    ELSE IF IsNa(value) THEN Outcome(Ok(value), st)
    ELSE Outcome(Ok(name(EN_US, seed_instance(hexdigest(MD5, StrOf(value))))), st)

\* a variant of pseudonymize_strategy that draws the seed_based name from the
\* locale's generator as it stands, without seeding it with the value
pseudonymize_unseeded(value, parameters, st, entropy) ==
    IF IsNa(value) THEN Outcome(Ok(value), st)
    ELSE IF ~st.Faker
    THEN Outcome(Err("AnonymizationError", "Faker library required for pseudonymization"), st)
    ELSE LET seed_based == GetOr(parameters, "seed_based", BoolV(TRUE))
             locale == GetOr(parameters, "locale", StrV(EN_US)).str
             fakers == IF locale \in DOMAIN st._faker_cache THEN st._faker_cache
                       ELSE Put(st._faker_cache, locale, NewFaker(entropy))
             faker == fakers[locale]
             cache_key == <<locale, StrOf(value)>>
             drawn == Put(fakers, locale, [faker EXCEPT !.draws = faker.draws + 1])
         IN  IF Truthy(seed_based) /\ cache_key \in DOMAIN st._pseudo_cache
             THEN Outcome(Ok(st._pseudo_cache[cache_key]),
                          StrategyState(st.Faker, fakers, st._pseudo_cache))
             ELSE Outcome(Ok(name(locale, faker)),
                          StrategyState(st.Faker, drawn,
                              IF Truthy(seed_based)
                              THEN Put(st._pseudo_cache, cache_key, name(locale, faker))
                              ELSE st._pseudo_cache))

\* a variant of pseudonymize_strategy that takes every call for a seed_based
\* false one: the next name of the locale's generator, nothing cached
pseudonymize_never_seeded(value, parameters, st, entropy) ==
    IF IsNa(value) THEN Outcome(Ok(value), st)
    ELSE IF ~st.Faker
    THEN Outcome(Err("AnonymizationError", "Faker library required for pseudonymization"), st)
    ELSE LET locale == GetOr(parameters, "locale", StrV(EN_US)).str
             fakers == IF locale \in DOMAIN st._faker_cache THEN st._faker_cache
                       ELSE Put(st._faker_cache, locale, NewFaker(entropy))
             faker == fakers[locale]
         IN  Outcome(Ok(name(locale, faker)),
                     StrategyState(st.Faker,
                         Put(fakers, locale, [faker EXCEPT !.draws = faker.draws + 1]),
                         st._pseudo_cache))

\* AnonymizationStrategies.pseudonymize_strategy
pseudonymize_strategy(value, parameters, st, entropy) ==
    IF IsNa(value) THEN Outcome(Ok(value), st)
    ELSE IF ~st.Faker
    THEN Outcome(Err("AnonymizationError", "Faker library required for pseudonymization"), st)
    ELSE LET seed_based == GetOr(parameters, "seed_based", BoolV(TRUE))
             locale == GetOr(parameters, "locale", StrV(EN_US)).str
             fakers == IF locale \in DOMAIN st._faker_cache THEN st._faker_cache
                       ELSE Put(st._faker_cache, locale, NewFaker(entropy))
             faker == fakers[locale]
             cache_key == <<locale, StrOf(value)>>
             seeded == seed_instance(hexdigest(MD5, StrOf(value)))
         IN  IF Truthy(seed_based)
             THEN IF cache_key \in DOMAIN st._pseudo_cache
                  THEN Outcome(Ok(st._pseudo_cache[cache_key]),
                               StrategyState(st.Faker, fakers, st._pseudo_cache))
                  ELSE Outcome(Ok(name(locale, seeded)),
                               StrategyState(st.Faker,
                                   Put(fakers, locale, [seeded EXCEPT !.draws = 1]),
                                   Put(st._pseudo_cache, cache_key, name(locale, seeded))))
             ELSE Outcome(Ok(name(locale, faker)),
                          StrategyState(st.Faker,
                              Put(fakers, locale, [faker EXCEPT !.draws = faker.draws + 1]),
                              st._pseudo_cache))

\* Anonymizer._strategy_map: the function of a strategy, applied
strategy_func(strategy, value, parameters, st, entropy) ==
    CASE strategy = "hash" -> Outcome(hash_strategy(value, parameters), st)
      [] strategy = "redact_full" -> Outcome(redact_full_strategy(value, parameters), st)
      [] strategy = "redact_partial" -> Outcome(redact_partial_strategy(value, parameters), st)
      [] strategy = "pseudonymize" -> pseudonymize_strategy(value, parameters, st, entropy)
      [] strategy = "generalize" -> Outcome(generalize_strategy(value, parameters), st)

(***************************************************************************)
(* Anonymizer.  A DataFrame is its ordered column names and, per column,   *)
(* the sequence of its values.                                             *)
(***************************************************************************)
Frame(columns, data) == [columns |-> columns, data |-> data]

\* len(df)
NRows(df) == IF df.columns = <<>> THEN 0 ELSE Len(df.data[df.columns[1]])

\* series.apply(lambda x: strategy_func(x, parameters)) from position i on, acc
\* being the values computed so far: the first exception ends it
RECURSIVE Apply(_, _, _, _, _, _, _)
Apply(strategy, series, parameters, st, entropy, i, acc) ==
    IF i > Len(series) THEN Outcome(Ok(StrV(<<>>)), st) @@ [vals |-> acc]
    ELSE LET one == strategy_func(strategy, series[i], parameters, st, entropy)
         IN  IF one.exc # "none" THEN one @@ [vals |-> acc]
             ELSE Apply(strategy, series, parameters, one.st, entropy, i + 1, Append(acc, one.val))

\* pd.api.types.is_numeric_dtype(series.dtype)
is_numeric_dtype(series) == \A i \in DOMAIN series : series[i].kind \in {"int", "float", "null"}

\* is_numeric_or_null of _preserve_dtype
is_numeric_or_null(x) ==
    IF IsNa(x) THEN TRUE
    ELSE LET str_val == SelectSeq(StrOf(x), LAMBDA c : c \notin {".", "-"})
         IN  IsDigits(str_val)

\* pd.to_numeric(result, errors='ignore'): every value that parses becomes a
\* number, or the series is returned as it is
to_numeric(result) ==
    IF \A i \in DOMAIN result : IsNa(result[i]) \/ CanFloat(result[i])
    THEN [i \in DOMAIN result |-> IF IsNa(result[i]) \/ result[i].kind = "float" THEN result[i]
                                  ELSE FloatV(ToFloat(result[i]))]
    ELSE result

_preserve_dtype(result, series, strategy) ==
    IF Len(result) = 0 THEN result
    ELSE IF strategy \in {"hash", "generalize"} THEN result
    ELSE IF strategy \in {"redact_full", "redact_partial"} THEN result
    ELSE IF is_numeric_dtype(series) /\ \A i \in DOMAIN result : is_numeric_or_null(result[i])
    THEN to_numeric(result)
    ELSE result

\* Anonymizer._anonymize_column: any exception of the strategy is raised again
\* as an AnonymizationError whose message names the strategy and carries the
\* message of its cause
_anonymize_column(series, rule, global_config, st, entropy) ==
    LET applied == Apply(rule.strategy, series, rule.parameters, st, entropy, 1, <<>>)
    IN  IF applied.exc # "none"
        THEN [exc |-> "AnonymizationError", strategy |-> rule.strategy, cause |-> applied.exc,
              msg |-> applied.msg, vals |-> applied.vals, st |-> applied.st]
        ELSE [exc |-> "none", strategy |-> rule.strategy, cause |-> "none", msg |-> "",
              vals |-> IF global_config.preserve_data_types
                       THEN _preserve_dtype(applied.vals, series, rule.strategy)
                       ELSE applied.vals,
              st |-> applied.st]

\* Anonymizer._get_pii_type; None is the empty text
_get_pii_type(column, mapping, rules) ==
    IF ~mapping.isNone /\ DOMAIN mapping.val # {}
    THEN IF column \in DOMAIN mapping.val THEN mapping.val[column] ELSE ""
    ELSE IF column \in DOMAIN rules THEN column ELSE ""

(***************************************************************************)
(* The documents the loader is run on.                                     *)
(***************************************************************************)
Absent == [kind |-> "absent", num |-> 0, str |-> <<>>]

\* a dictionary literal: the keys of record r whose value is not Absent
Dict(r) == [k \in {x \in DOMAIN r : r[x] # Absent} |-> r[k]]

HashParameters ==
    {Dict([algorithm |-> a, salt |-> b]) :
        a \in {Absent, StrV(SHA256), StrV(MD5), StrV(<<"c", "r", "c">>)},
        b \in {Absent, BoolV(TRUE)}}

RedactFullParameters ==
    {Dict([replacement |-> a]) : a \in {Absent, StrV(<<"X">>)}}

RedactPartialParameters ==
    {Dict([visible_chars |-> a, mask_char |-> b]) :
        a \in {Absent, IntV(-1), IntV(0), IntV(2), StrV(<<"2">>)},
        b \in {Absent, StrV(<<"*">>), StrV(<<"*", "*">>), StrV(<<>>)}}

PseudonymizeParameters ==
    {Dict([seed_based |-> a]) : a \in {Absent, BoolV(TRUE), BoolV(FALSE)}}

GeneralizeParameters ==
    {Dict([bin_size |-> a, min_value |-> b, max_value |-> c, precision |-> d,
           granularity |-> e, level |-> f, octets |-> g]) :
        a \in {Absent, IntV(0), IntV(10)},
        b \in {Absent, IntV(0)},
        c \in {Absent, IntV(0), IntV(100)},
        d \in {Absent, IntV(0), IntV(3)},
        e \in {Absent, StrV(<<"m", "o", "n", "t", "h">>), StrV(<<"h", "o", "u", "r">>)},
        f \in {Absent, StrV(<<"c", "i", "t", "y">>), StrV(<<"t", "o", "w", "n">>)},
        g \in {Absent, IntV(2), IntV(5)}}

ParametersOf(strategy) ==
    CASE strategy = "hash" -> HashParameters
      [] strategy = "redact_full" -> RedactFullParameters
      [] strategy = "redact_partial" -> RedactPartialParameters
      [] strategy = "pseudonymize" -> PseudonymizeParameters
      [] strategy = "generalize" -> GeneralizeParameters
      [] OTHER -> {EmptyMap}

RuleData(pii_type, isdict, strategy, parameters) ==
    [pii_type |-> pii_type, isdict |-> isdict, strategy |-> strategy, parameters |-> parameters]

\* the entries a 'rules' dictionary may hold for one PII type: a rule of each
\* strategy, a rule with no strategy, one of an unknown strategy, a non-dictionary
RawRules(pii_type) ==
    {RuleData(pii_type, TRUE, s, p) : s \in AnonymizationStrategy, p \in {EmptyMap}} \cup
    UNION {{RuleData(pii_type, TRUE, s, p) : p \in ParametersOf(s)} : s \in AnonymizationStrategy} \cup
    {RuleData(pii_type, TRUE, "", Dict([algorithm |-> StrV(SHA256)])),
     RuleData(pii_type, TRUE, "encrypt", EmptyMap),
     RuleData(pii_type, FALSE, "", EmptyMap)}

Document(form, hasRules, rulesIsDict, rules, version, globalIsDict, global) ==
    [form |-> form, hasRules |-> hasRules, rulesIsDict |-> rulesIsDict, rules |-> rules,
     version |-> version, globalIsDict |-> globalIsDict, global |-> global]

WellFormed(rules, global) == Document("dict", TRUE, TRUE, rules, "str", TRUE, global)

RawGlobals == {EmptyMap, Dict([handle_nulls |-> BoolV(FALSE)])}

\* a rule that validates, to stand before another in a two-rule document
FirstRule == RuleData("email", TRUE, "hash", Dict([algorithm |-> StrV(SHA256)]))

ConfigFiles ==
    {Document("missing_file", FALSE, FALSE, <<>>, "absent", TRUE, EmptyMap),
     Document("bad_yaml", FALSE, FALSE, <<>>, "absent", TRUE, EmptyMap),
     Document("not_dict", FALSE, FALSE, <<>>, "absent", TRUE, EmptyMap),
     Document("dict", FALSE, FALSE, <<>>, "str", TRUE, EmptyMap),
     Document("dict", TRUE, FALSE, <<>>, "str", TRUE, EmptyMap),
     Document("dict", TRUE, TRUE, <<FirstRule>>, "notstr", TRUE, EmptyMap),
     Document("dict", TRUE, TRUE, <<FirstRule>>, "absent", FALSE, EmptyMap),
     WellFormed(<<>>, EmptyMap)} \cup
    {WellFormed(<<r>>, g) : r \in RawRules("age"), g \in RawGlobals} \cup
    {WellFormed(<<FirstRule, r>>, g) : r \in RawRules("age"), g \in RawGlobals}

(***************************************************************************)
(* The constructed state of each subsystem.                                *)
(***************************************************************************)
NotCalled == [exc |-> "not called", msg |-> ""]

\* ConfigLoader.__init__
ConfigInit ==
    /\ configFile \in ConfigFiles
    /\ _raw_config = None
    /\ _rules = None
    /\ _global_config = NoGlobal
    /\ loadOutcome = NotCalled

\* the runs that may execute concurrently, and a run that is in no call
Threads == {"run1", "run2"}
IdleRun == [pc |-> "idle", value |-> Null, locale |-> <<>>, fake_value |-> Null,
            result |-> Null]
NoRuns == [t \in Threads |-> IdleRun]

\* the caches are class attributes: empty when the module is imported
StrategyInit ==
    /\ Faker \in BOOLEAN
    /\ _faker_cache = EmptyMap
    /\ _pseudo_cache = EmptyMap
    /\ runs = NoRuns

NoCall == [op |-> "none", strategy |-> "", parameters |-> EmptyMap, series |-> <<>>,
           exc |-> "none", cause |-> "none", msg |-> "", vals |-> <<>>]

(***************************************************************************)
(* Anonymizer state.  DataFrames live in a heap, so that a copy and an     *)
(* alias differ: the caller holds dfRef, anonymize works on resultRef.     *)
(***************************************************************************)
\* df.copy(): a new object with the contents of ref
\* a variant of copy that hands back the frame itself
copyAlias(h, ref) == [ref |-> ref, heap |-> h]

\* df.copy(): a new object with the same contents
copy(h, ref) ==
    LET fresh == CHOOSE id \in 1..(Cardinality(DOMAIN h) + 1) : id \notin DOMAIN h
    IN  [ref |-> fresh, heap |-> Put(h, fresh, h[ref])]

\* the dictionary anonymize assigns to self._stats
FreshStats(rows) ==
    [columns_processed |-> 0, columns_anonymized |-> 0, rows_processed |-> rows, errors |-> <<>>]

\* a variant of ResetStatistics that keeps the counters and the errors of the
\* call before
KeepStatistics(stats, rows) == [stats EXCEPT !.rows_processed = rows]

\* `self._stats = {...}` of anonymize: a new dictionary takes the place of the
\* one the call before left
ResetStatistics(stats, rows) == FreshStats(rows)

\* get_statistics not called yet.  A record it hands out is a new dictionary
\* with the counters of _stats; its 'errors' is the list object of _stats
\* itself for as long as same_list says so, and a list of its own (errors)
\* once anonymize has given _stats another one
NotHanded == [taken |-> FALSE, columns_processed |-> 0, columns_anonymized |-> 0,
              rows_processed |-> 0, same_list |-> FALSE, errors |-> <<>>]

\* anonymize gives self._stats a new dictionary and a new errors list: a
\* record handed out before keeps the list it has
Detached(record, stats) ==
    IF record.same_list THEN [record EXCEPT !.same_list = FALSE, !.errors = stats.errors]
    ELSE record

NothingReturned == [kind |-> "none", ref |-> 0, exc |-> "", msg |-> ""]
ReturnedFrame(ref) == [kind |-> "frame", ref |-> ref, exc |-> "", msg |-> ""]
RaisedTo(exc, msg) == [kind |-> "exception", ref |-> 0, exc |-> exc, msg |-> msg]

\* the error_msg of anonymize: it names the column and carries str(e)
ErrorMsg(column, out) ==
    [column |-> column, strategy |-> out.strategy, cause |-> out.cause, msg |-> out.msg]

(***************************************************************************)
(* The datasets and configurations anonymize is run on.                    *)
(***************************************************************************)
MaxRows == 2

CellValues == {Null, IntV(34), StrV(<<"a", "b">>)}

\* pandas holds a numeric column with a missing value as float64
AsColumn(vals) ==
    IF /\ \A i \in DOMAIN vals : vals[i].kind \in {"int", "float", "null"}
       /\ \E i \in DOMAIN vals : vals[i].kind = "null"
       /\ \E i \in DOMAIN vals : vals[i].kind # "null"
    THEN [i \in DOMAIN vals |-> IF vals[i].kind = "int" THEN FloatV(vals[i].num) ELSE vals[i]]
    ELSE vals

SeriesOf(n) == {AsColumn(vals) : vals \in [1..n -> CellValues]}

ColumnNames == <<"email", "age">>

Frames ==
    {Frame(<<>>, EmptyMap)} \cup
    UNION {{Frame(ColumnNames, [c \in {"email", "age"} |-> IF c = "email" THEN a ELSE b]) :
                a \in SeriesOf(n), b \in SeriesOf(n)} : n \in 0..MaxRows}

\* rules that validate, one of each strategy and two Generalize families
AnonRules(pii_type) ==
    {RuleData(pii_type, TRUE, "hash", Dict([algorithm |-> StrV(SHA256)])),
     RuleData(pii_type, TRUE, "redact_full", EmptyMap),
     RuleData(pii_type, TRUE, "redact_partial",
              Dict([visible_chars |-> IntV(2), mask_char |-> StrV(<<"*">>)])),
     RuleData(pii_type, TRUE, "pseudonymize", Dict([seed_based |-> BoolV(TRUE)])),
     RuleData(pii_type, TRUE, "generalize",
              Dict([bin_size |-> IntV(10), min_value |-> IntV(0), max_value |-> IntV(100)])),
     RuleData(pii_type, TRUE, "generalize", Dict([precision |-> IntV(3)]))}

AnonConfigFiles ==
    {WellFormed(rules, g) :
        rules \in {<<>>} \cup {<<r>> : r \in AnonRules("email") \cup AnonRules("age")}
                  \cup {<<r1, r2>> : r1 \in AnonRules("email"), r2 \in AnonRules("age")},
        g \in RawGlobals}

ColumnMappings == {None, Some(EmptyMap), Some("email" :> "age")}

\* Anonymizer.__init__ over a loaded configuration, and a DataFrame of the caller
AnonInit ==
    /\ \E frame \in Frames :
            /\ heap = (1 :> frame)
            /\ snapshot = frame
    /\ dfRef = 1
    /\ column_mapping = None
    /\ resultRef = 0
    /\ colIdx = 1
    /\ _stats = FreshStats(0)
    /\ pc = "idle"
    /\ returned = NothingReturned
    /\ handed = NotHanded

\* a ConfigLoader on which load() has returned
LoadedInit(files) ==
    \E file \in files :
        LET l == load(file, None, None, NoGlobal)
        IN  /\ l.outcome.exc = "none"
            /\ configFile = file
            /\ _raw_config = l.raw
            /\ _rules = l.rules
            /\ _global_config = l.global
            /\ loadOutcome = l.outcome

(***************************************************************************)
(* Anonymizer.anonymize, in three steps: the call up to the loop, one      *)
(* iteration of the loop, and the return after the last column.            *)
(***************************************************************************)
AnonymizeCall ==
    /\ pc \in {"idle", "returned", "raised"}
    /\ \E mapping \in ColumnMappings :
        LET df == heap[dfRef]
            copied == copy((dfRef :> df), dfRef)
        IN  /\ column_mapping' = mapping
            /\ snapshot' = df
            /\ heap' = copied.heap
            /\ resultRef' = copied.ref
            /\ _stats' = ResetStatistics(_stats, NRows(df))
            /\ handed' = Detached(handed, _stats)
            /\ colIdx' = 1
            /\ IF NRows(df) = 0
               THEN pc' = "returned" /\ returned' = ReturnedFrame(copied.ref)
               ELSE pc' = "loop" /\ returned' = NothingReturned
    /\ UNCHANGED <<dfRef, configVars, strategyVars, validatorVars>>

\* a variant of RecordError that drops the message
RecordErrorDropped(stats, column, out) == stats

\* a variant of FailFast that never re-raises
FailFastNever(global_config) == FALSE

\* self._stats['errors'].append(error_msg)
RecordError(stats, column, out) == [stats EXCEPT !.errors = Append(@, ErrorMsg(column, out))]

\* if not self.global_config.handle_nulls: raise
FailFast(global_config) == ~global_config.handle_nulls

\* result[column] = series
SetColumn(h, ref, column, vals) == [h EXCEPT ![ref].data[column] = vals]

ProcessColumn ==
    /\ pc = "loop"
    /\ colIdx <= Len(heap[dfRef].columns)
    /\ \E entropy \in EntropySeeds :
        LET df == heap[dfRef]
            column == df.columns[colIdx]
            counted == [_stats EXCEPT !.columns_processed = @ + 1]
            pii_type == _get_pii_type(column, column_mapping, _rules.val)
            st == StrategyState(Faker, _faker_cache, _pseudo_cache)
            out == _anonymize_column(df.data[column], _rules.val[pii_type],
                                     _global_config.val, st, entropy)
        IN  IF pii_type = "" \/ pii_type \notin DOMAIN _rules.val
            THEN /\ _stats' = counted
                 /\ colIdx' = colIdx + 1
                 /\ UNCHANGED <<heap, pc, returned, _faker_cache, _pseudo_cache>>
            ELSE /\ _faker_cache' = out.st._faker_cache
                 /\ _pseudo_cache' = out.st._pseudo_cache
                 /\ IF out.exc = "none"
                    THEN /\ heap' = SetColumn(heap, resultRef, column, out.vals)
                         /\ _stats' = [counted EXCEPT !.columns_anonymized = @ + 1]
                         /\ colIdx' = colIdx + 1
                         /\ UNCHANGED <<pc, returned>>
                    ELSE /\ _stats' = RecordError(counted, column, out)
                         /\ UNCHANGED heap
                         /\ IF FailFast(_global_config.val)
                            THEN /\ pc' = "raised"
                                 /\ returned' = RaisedTo("AnonymizationError", "Error anonymizing column")
                                 /\ UNCHANGED colIdx
                            ELSE /\ colIdx' = colIdx + 1
                                 /\ UNCHANGED <<pc, returned>>
    /\ UNCHANGED <<dfRef, snapshot, column_mapping, resultRef, configVars, Faker, strategyCall,
                   runs, handed, validatorVars>>

AnonymizeReturn ==
    /\ pc = "loop"
    /\ colIdx > Len(heap[dfRef].columns)
    /\ pc' = "returned"
    /\ returned' = ReturnedFrame(resultRef)
    /\ UNCHANGED <<heap, dfRef, snapshot, column_mapping, resultRef, colIdx, _stats, handed,
                   configVars, strategyVars, validatorVars>>

(***************************************************************************)
(* Direct calls: of a strategy function on one value, and of               *)
(* _anonymize_column on one series.                                        *)
(***************************************************************************)
MaxDraws == 2

CallValues == CellValues

CallGeneralizeParameters ==
    {Dict([bin_size |-> a, min_value |-> b, max_value |-> c, precision |-> d]) :
        a \in {Absent, IntV(0), IntV(10)},
        b \in {Absent, IntV(0)},
        c \in {Absent, IntV(100)},
        d \in {Absent, IntV(3)}}

\* the parameters a direct call passes: validated or not
CallParameters(strategy) ==
    IF strategy = "generalize" THEN CallGeneralizeParameters ELSE ParametersOf(strategy)

CallSeries == UNION {SeriesOf(n) : n \in 0..MaxRows}

\* the generators stay within MaxDraws draws
DrawsBounded(st) == \A l \in DOMAIN st._faker_cache : st._faker_cache[l].draws <= MaxDraws

\* a call not yet made
Pending(op, strategy, parameters, series) ==
    [op |-> op, strategy |-> strategy, parameters |-> parameters, series |-> series,
     exc |-> "not called", cause |-> "none", msg |-> "", vals |-> <<>>]

PendingCalls ==
    UNION {{Pending("value", strategy, parameters, <<value>>) :
                parameters \in CallParameters(strategy), value \in CallValues}
           \cup {Pending("column", strategy, parameters, series) :
                parameters \in CallParameters(strategy), series \in CallSeries} :
           strategy \in AnonymizationStrategy}

\* the strategy function called on the value, once or again
StrategyCall ==
    /\ pc # "loop"
    /\ strategyCall.op = "value"
    /\ \E entropy \in EntropySeeds :
            LET out == strategy_func(strategyCall.strategy, strategyCall.series[1],
                                     strategyCall.parameters,
                                     StrategyState(Faker, _faker_cache, _pseudo_cache), entropy)
            IN  /\ DrawsBounded(out.st)
                /\ strategyCall' =
                        [strategyCall EXCEPT !.exc = out.exc, !.cause = out.exc, !.msg = out.msg,
                                             !.vals = IF out.exc = "none" THEN <<out.val>> ELSE <<>>]
                /\ _faker_cache' = out.st._faker_cache
                /\ _pseudo_cache' = out.st._pseudo_cache
    /\ UNCHANGED <<Faker, runs, configVars, anonVars, validatorVars>>

\* _anonymize_column called on the series, once or again
ColumnCall ==
    /\ pc # "loop"
    /\ strategyCall.op = "column"
    /\ \E entropy \in EntropySeeds :
            LET out == _anonymize_column(strategyCall.series,
                                         RuleConfig("column", strategyCall.strategy,
                                                    strategyCall.parameters),
                                         _global_config.val,
                                         StrategyState(Faker, _faker_cache, _pseudo_cache), entropy)
            IN  /\ DrawsBounded(out.st)
                /\ strategyCall' =
                        [strategyCall EXCEPT !.exc = out.exc, !.cause = out.cause, !.msg = out.msg,
                                             !.vals = IF out.exc = "none" THEN out.vals ELSE <<>>]
                /\ _faker_cache' = out.st._faker_cache
                /\ _pseudo_cache' = out.st._pseudo_cache
    /\ UNCHANGED <<Faker, runs, configVars, anonVars, validatorVars>>

(***************************************************************************)
(* ConfigLoader.load                                                       *)
(***************************************************************************)
Load ==
    /\ LET l == load(configFile, _raw_config, _rules, _global_config)
       IN  /\ _raw_config' = l.raw
           /\ _rules' = l.rules
           /\ _global_config' = l.global
           /\ loadOutcome' = l.outcome
    /\ UNCHANGED <<configFile, strategyVars, anonVars, validatorVars>>

(***************************************************************************)
(* PrivacyValidator.  A dataset is the set of its column names and the     *)
(* sequence of its rows, a row giving each column a value.                 *)
(***************************************************************************)
\* [qi for qi in names if qi in df.columns]
Available(names, df) == SelectSeq(names, LAMBDA c : c \in df.columns)

\* the key df.groupby(quasi_identifiers, dropna=False) files a row under: a
\* missing value is a key value like any other
GroupKey(row, quasi_identifiers) == [i \in DOMAIN quasi_identifiers |-> row[quasi_identifiers[i]]]

\* a variant of GroupKeys that leaves out the keys with a missing value
GroupKeysDropna(df, quasi_identifiers) ==
    {key \in {GroupKey(df.rows[i], quasi_identifiers) : i \in DOMAIN df.rows} :
        \A i \in DOMAIN key : ~IsNa(key[i])}

GroupKeys(df, quasi_identifiers) ==
    {GroupKey(df.rows[i], quasi_identifiers) : i \in DOMAIN df.rows}

RowsOf(df, quasi_identifiers, key) ==
    {i \in DOMAIN df.rows : GroupKey(df.rows[i], quasi_identifiers) = key}

\* df.groupby(quasi_identifiers, dropna=False).size(): group key -> number of rows
GroupSizes(df, quasi_identifiers) ==
    [key \in GroupKeys(df, quasi_identifiers) |-> Cardinality(RowsOf(df, quasi_identifiers, key))]

RECURSIVE SumOver(_, _)
SumOver(f, keys) ==
    IF keys = {} THEN 0
    ELSE LET k == CHOOSE x \in keys : TRUE IN f[k] + SumOver(f, keys \ {k})

MinOver(f, keys) == CHOOSE m \in {f[k] : k \in keys} : \A k \in keys : m <= f[k]

\* a quotient sum / n, kept exact; 0 is Ratio(0, 1)
Ratio(sum, n) == [sum |-> sum, n |-> n]

\* _calculate_k_anonymity: (min_k, avg_k, group_sizes)
_calculate_k_anonymity(df, quasi_identifiers) ==
    LET group_sizes == GroupSizes(df, quasi_identifiers)
    IN  IF DOMAIN group_sizes = {}
        THEN [min_k |-> 0, avg_k |-> Ratio(0, 1), group_sizes |-> group_sizes]
        ELSE [min_k |-> MinOver(group_sizes, DOMAIN group_sizes),
              avg_k |-> Ratio(SumOver(group_sizes, DOMAIN group_sizes),
                              Cardinality(DOMAIN group_sizes)),
              group_sizes |-> group_sizes]

\* sum(1 for size in group_sizes if size < required_k)
outlier_count(group_sizes, required_k) ==
    Cardinality({key \in DOMAIN group_sizes : group_sizes[key] < required_k})

\* (count / len(df)) * 100 <= percent, for len(df) > 0
PercentAtMost(count, total, percent) == count * 100 <= percent * total

\* len(set(group_sizes))
DistinctSizes(group_sizes) == Cardinality({group_sizes[key] : key \in DOMAIN group_sizes})

CheckRaised(exc) == [raised |-> exc, passed |-> FALSE, message |-> ""]

_check_k_anonymity(df, th) ==
    LET k_config == th.k_anonymity
        required_k == k_config.minimum_k
        available_qi == Available(k_config.quasi_identifiers, df)
        k == _calculate_k_anonymity(df, available_qi)
        passed == k.min_k >= required_k
        outliers == outlier_count(k.group_sizes, required_k)
        found == [raised |-> "none", min_k |-> k.min_k, avg_k |-> k.avg_k,
                  required_k |-> required_k, quasi_identifiers |-> available_qi,
                  total_equivalence_classes |-> DistinctSizes(k.group_sizes)]
    IN  IF available_qi = <<>>
        THEN [raised |-> "none", passed |-> FALSE,
              message |-> "No quasi-identifiers found in dataset",
              min_k |-> 0, avg_k |-> Ratio(0, 1),
              quasi_identifiers |-> k_config.quasi_identifiers]
        ELSE IF ~passed /\ k_config.allow_outliers
        THEN IF Len(df.rows) = 0 THEN CheckRaised("ZeroDivisionError")
             ELSE IF PercentAtMost(outliers, Len(df.rows), k_config.max_outlier_percent)
             THEN found @@ [passed |-> TRUE, message |-> "below threshold, but outliers acceptable"]
             ELSE found @@ [passed |-> FALSE, message |-> "below threshold, outliers exceeds limit"]
        ELSE IF passed THEN found @@ [passed |-> TRUE, message |-> "meets threshold"]
        ELSE found @@ [passed |-> FALSE, message |-> "below threshold"]

\* a variant of nunique that counts the values of the first sensitive
\* attribute whatever attribute is asked for
nuniqueOfDiagnosis(df, quasi_identifiers, key, sensitive_attr) ==
    LET attr == IF "diagnosis" \in df.columns THEN "diagnosis" ELSE sensitive_attr
    IN  Cardinality({df.rows[i][attr] : i \in RowsOf(df, quasi_identifiers, key)} \ {Null})

\* groups.nunique(): the distinct values of the attribute in a group, missing
\* values not counted
nunique(df, quasi_identifiers, key, sensitive_attr) ==
    Cardinality({df.rows[i][sensitive_attr] : i \in RowsOf(df, quasi_identifiers, key)} \ {Null})

RECURSIVE SumSeq(_)
SumSeq(xs) == IF xs = <<>> THEN 0 ELSE Head(xs) + SumSeq(Tail(xs))

_check_l_diversity(df, th) ==
    LET l_config == th.l_diversity
        required_l == l_config.minimum_l
        available_qi == Available(th.k_anonymity.quasi_identifiers, df)
        available_sa == Available(l_config.sensitive_attributes, df)
        keys == GroupKeys(df, available_qi)
        diversity_counts(sa) == [key \in keys |-> nunique(df, available_qi, key, sa)]
        min_l_overall ==
            IF keys = {} THEN 0
            ELSE LET mins == {MinOver(diversity_counts(available_sa[j]), keys) :
                                j \in DOMAIN available_sa}
                 IN  CHOOSE m \in mins : \A x \in mins : m <= x
        avg_l_overall ==
            IF keys = {} THEN Ratio(0, 1)
            ELSE Ratio(SumSeq([j \in DOMAIN available_sa |->
                                  SumOver(diversity_counts(available_sa[j]), keys)]),
                       Cardinality(keys) * Len(available_sa))
    IN  IF available_sa = <<>>
        THEN [raised |-> "none", passed |-> TRUE,
              message |-> "No sensitive attributes specified or found", applicable |-> FALSE]
        ELSE IF available_qi = <<>>
        THEN [raised |-> "none", passed |-> FALSE,
              message |-> "No quasi-identifiers found for l-diversity check",
              applicable |-> TRUE, min_l |-> 0, avg_l |-> Ratio(0, 1)]
        ELSE [raised |-> "none", passed |-> min_l_overall >= required_l,
              message |-> IF min_l_overall >= required_l THEN "meets threshold"
                          ELSE "below threshold",
              applicable |-> TRUE, min_l |-> min_l_overall, avg_l |-> avg_l_overall,
              required_l |-> required_l, sensitive_attributes |-> available_sa]

\* df_temp['_group_size'] of row i:
\* groupby(available_qi, dropna=False)[available_qi[0]].transform('count'), the
\* number of rows of the group whose first quasi-identifier is not missing
_group_size(df, available_qi, i) ==
    Cardinality({j \in RowsOf(df, available_qi, GroupKey(df.rows[i], available_qi)) :
                    ~IsNa(df.rows[j][available_qi[1]])})

_check_reidentification_risk(df, th) ==
    LET max_risk_percent == th.reidentification_risk.max_risk_percent
        available_qi == Available(th.k_anonymity.quasi_identifiers, df)
        rows == DOMAIN df.rows
        high_risk_count == Cardinality({i \in rows : _group_size(df, available_qi, i) <= 2})
        medium_risk_count ==
            Cardinality({i \in rows : /\ _group_size(df, available_qi, i) >= 3
                                      /\ _group_size(df, available_qi, i) <= 4})
        low_risk_count == Cardinality({i \in rows : _group_size(df, available_qi, i) >= 5})
        passed == PercentAtMost(high_risk_count, Len(df.rows), max_risk_percent)
    IN  IF available_qi = <<>>
        THEN [raised |-> "none", passed |-> FALSE,
              message |-> "No quasi-identifiers found for risk assessment",
              high_risk_count |-> 0]
        ELSE IF Len(df.rows) = 0 THEN CheckRaised("ZeroDivisionError")
        ELSE [raised |-> "none", passed |-> passed,
              message |-> IF passed THEN "below threshold" ELSE "exceeds threshold",
              high_risk_count |-> high_risk_count, medium_risk_count |-> medium_risk_count,
              low_risk_count |-> low_risk_count, max_risk_percent |-> max_risk_percent]

\* the checks validate runs, in its order
CheckNames == <<"k_anonymity", "l_diversity", "reidentification_risk">>

RunCheck(check_name, df, th) ==
    CASE check_name = "k_anonymity" -> _check_k_anonymity(df, th)
      [] check_name = "l_diversity" -> _check_l_diversity(df, th)
      [] check_name = "reidentification_risk" -> _check_reidentification_risk(df, th)

\* _generate_summary: the names of the failed checks (none: all passed)
_generate_summary(checks) == {check_name \in DOMAIN checks : ~checks[check_name].passed}

NoResults == [raised |-> "not called", passed |-> TRUE, checks |-> EmptyMap, summary |-> {}]

\* a variant of validate that runs every check, enabled or not
validate_every_check(df, th) ==
    LET names == {CheckNames[i] : i \in DOMAIN CheckNames}
        checks == [check_name \in names |-> RunCheck(check_name, df, th)]
    IN  IF \E check_name \in names : checks[check_name].raised # "none"
        THEN [raised |-> "ZeroDivisionError", passed |-> FALSE, checks |-> EmptyMap, summary |-> {}]
        ELSE [raised |-> "none",
              passed |-> \A check_name \in names : checks[check_name].passed,
              checks |-> checks,
              summary |-> _generate_summary(checks)]

\* PrivacyValidator.validate: an exception of a check ends the call
validate_dataset(df, th) ==
    LET enabled == {CheckNames[i] : i \in {j \in DOMAIN CheckNames : th[CheckNames[j]].enabled}}
        checks == [check_name \in enabled |-> RunCheck(check_name, df, th)]
        raising == {i \in DOMAIN CheckNames :
                        CheckNames[i] \in enabled /\ checks[CheckNames[i]].raised # "none"}
        first == CHOOSE i \in raising : \A j \in raising : i <= j
    IN  IF raising # {}
        THEN [raised |-> checks[CheckNames[first]].raised, passed |-> FALSE,
              checks |-> EmptyMap, summary |-> {}]
        ELSE [raised |-> "none",
              passed |-> \A check_name \in enabled : checks[check_name].passed,
              checks |-> checks,
              summary |-> _generate_summary(checks)]

(***************************************************************************)
(* The datasets and thresholds validate is run on.                         *)
(***************************************************************************)
MaxDataRows == 3

Row(age, zipcode, diagnosis) == [age |-> age, zipcode |-> zipcode, diagnosis |-> diagnosis]

ZIP == StrV(<<"1", "0", "0">>)
FLU == StrV(<<"f", "l", "u">>)
COLD == StrV(<<"c", "o", "l", "d">>)

\* the rows a dataset is made of
RowChoices ==
    <<Row(IntV(30), ZIP, FLU), Row(IntV(30), ZIP, COLD), Row(IntV(31), ZIP, FLU),
      Row(Null, ZIP, FLU), Row(Null, ZIP, COLD), Row(IntV(30), Null, FLU),
      Row(Null, Null, FLU), Row(IntV(31), ZIP, Null)>>

ColumnChoices == {{"age", "zipcode", "diagnosis"}, {"zipcode", "diagnosis"}, {"age", "zipcode"},
                  {"diagnosis"}}

\* the datasets of n rows: no check reads the position of a row, so rows are
\* listed in the order of RowChoices
DatasetsOf(n) ==
    {[columns |-> cols, rows |-> [i \in 1..n |-> [c \in cols |-> RowChoices[pick[i]][c]]]] :
        cols \in ColumnChoices,
        pick \in {p \in [1..n -> DOMAIN RowChoices] : \A i \in 1..n : \A j \in i..n : p[i] <= p[j]}}

Datasets == UNION {DatasetsOf(n) : n \in 0..MaxDataRows}

\* the declared quasi-identifiers with the declared sensitive attributes
DeclaredColumns ==
    {[quasi_identifiers |-> <<"age", "zipcode">>, sensitive_attributes |-> <<"diagnosis">>],
     [quasi_identifiers |-> <<"zipcode">>, sensitive_attributes |-> <<"diagnosis", "age">>]}

ThresholdChoices ==
    {[k_anonymity |-> [enabled |-> ke, minimum_k |-> k,
                       quasi_identifiers |-> declared.quasi_identifiers,
                       allow_outliers |-> ao, max_outlier_percent |-> mo],
      l_diversity |-> [enabled |-> le, minimum_l |-> 2,
                       sensitive_attributes |-> declared.sensitive_attributes],
      reidentification_risk |-> [enabled |-> re, max_risk_percent |-> 50]] :
        ke \in BOOLEAN, k \in {2, 3}, ao \in BOOLEAN, mo \in {0, 50},
        le \in BOOLEAN, re \in BOOLEAN, declared \in DeclaredColumns}

\* PrivacyValidator.__init__ and a dataset of the caller
ValidatorInit ==
    /\ thresholds \in ThresholdChoices
    /\ df_anonymized \in Datasets
    /\ results = NoResults

Validate ==
    /\ results' = validate_dataset(df_anonymized, thresholds)
    /\ UNCHANGED <<thresholds, df_anonymized, configVars, strategyVars, anonVars>>

(***************************************************************************)
(* The state of a subsystem a specification does not exercise.             *)
(***************************************************************************)
ConfigIdle == LoadedInit({WellFormed(<<>>, EmptyMap)})

StrategyIdle ==
    /\ Faker = TRUE /\ _faker_cache = EmptyMap /\ _pseudo_cache = EmptyMap
    /\ runs = NoRuns

AnonIdle ==
    /\ heap = (1 :> Frame(<<>>, EmptyMap))
    /\ snapshot = Frame(<<>>, EmptyMap)
    /\ dfRef = 1
    /\ column_mapping = None
    /\ resultRef = 0
    /\ colIdx = 1
    /\ _stats = FreshStats(0)
    /\ pc = "idle"
    /\ returned = NothingReturned
    /\ handed = NotHanded

ValidatorIdle ==
    /\ thresholds = CHOOSE th \in ThresholdChoices : TRUE
    /\ df_anonymized = [columns |-> {}, rows |-> <<>>]
    /\ results = NoResults

(***************************************************************************)
(* Specifications.                                                         *)
(***************************************************************************)
\* the loader, run on a document
InitConfig == ConfigInit /\ StrategyIdle /\ strategyCall = NoCall /\ AnonIdle /\ ValidatorIdle
NextConfig == Load
SpecConfig == InitConfig /\ [][NextConfig]_vars

\* a strategy function, or _anonymize_column, called directly on inputs drawn
\* at the start
StrategyConfigFiles ==
    {WellFormed(<<>>, g) : g \in {EmptyMap, Dict([preserve_data_types |-> BoolV(FALSE)])}}

InitStrategy ==
    /\ LoadedInit(StrategyConfigFiles)
    /\ StrategyInit /\ strategyCall \in PendingCalls
    /\ AnonIdle /\ ValidatorIdle
NextStrategy == StrategyCall \/ ColumnCall
SpecStrategy == InitStrategy /\ [][NextStrategy]_vars

\* anonymize over a loaded configuration
InitAnon ==
    /\ LoadedInit(AnonConfigFiles)
    /\ StrategyInit /\ strategyCall = NoCall
    /\ AnonInit /\ ValidatorIdle
NextAnon == AnonymizeCall \/ ProcessColumn \/ AnonymizeReturn
SpecAnon == InitAnon /\ [][NextAnon]_vars

\* validate over a dataset
InitValidator == ConfigIdle /\ StrategyIdle /\ strategyCall = NoCall /\ AnonIdle /\ ValidatorInit
NextValidator == Validate
SpecValidator == InitValidator /\ [][NextValidator]_vars

(***************************************************************************)
(* Properties of Anonymizer.anonymize (SpecAnon).                          *)
(***************************************************************************)
\* the columns of the call in progress, by position
ColumnAt(j) == snapshot.columns[j]
PiiTypeOf(j) == _get_pii_type(ColumnAt(j), column_mapping, _rules.val)
HasRule(j) == PiiTypeOf(j) # "" /\ PiiTypeOf(j) \in DOMAIN _rules.val
RuleOf(j) == _rules.val[PiiTypeOf(j)]

\* the strategy of column j's rule raises on some value of the input column
StrategyFails(j) ==
    /\ HasRule(j)
    /\ \E i \in DOMAIN snapshot.data[ColumnAt(j)] : \E entropy \in EntropySeeds :
          strategy_func(RuleOf(j).strategy, snapshot.data[ColumnAt(j)][i], RuleOf(j).parameters,
                        StrategyState(Faker, _faker_cache, _pseudo_cache), entropy).exc # "none"

\* the loop has been through column j
Processed(j) ==
    /\ pc \in {"loop", "returned", "raised"}
    /\ j \in DOMAIN snapshot.columns
    /\ j < colIdx \/ (pc = "raised" /\ j = colIdx)

ErrorsNaming(column) ==
    Cardinality({i \in DOMAIN _stats.errors : _stats.errors[i].column = column})

\* C1: a rule that passed validation never fails at transform time because a
\* parameter its strategy reads is missing: no column's error is the
\* TypeError of a comparison with a missing parameter.
C1_NoMissingParameterAtTransform ==
    \A i \in DOMAIN _stats.errors : _stats.errors[i].cause # "TypeError"

\* C4: with Faker unavailable, once anonymize has been through a column that
\* has a Pseudonymize rule and a non-null value, the call has ended by raising:
\* it neither goes on to the next column nor returns a dataset, whatever
\* handle_nulls is.
C4_MissingFakerPropagates ==
    \A j \in DOMAIN snapshot.columns :
        (/\ ~Faker /\ Processed(j) /\ HasRule(j)
         /\ RuleOf(j).strategy = "pseudonymize"
         /\ \E i \in DOMAIN snapshot.data[ColumnAt(j)] : ~IsNa(snapshot.data[ColumnAt(j)][i]))
        => (pc = "raised" /\ returned.kind = "exception")

\* C6: anonymize never changes the dataset it is given (its contents stay
\* what they were when the call was made), and the dataset it returns is
\* another object than the input.
C6_InputNotMutated ==
    pc # "idle" =>
        /\ heap[dfRef] = snapshot
        /\ returned.kind = "frame" => returned.ref # dfRef

\* C6 witness: a call has returned a dataset whose contents differ from the input's
C6_ReturnedTransformed ==
    /\ pc = "returned" /\ returned.kind = "frame"
    /\ _stats.columns_anonymized > 0
    /\ heap[returned.ref] # snapshot

\* C7: with handle_nulls true, a column whose strategy fails on some value
\* leaves exactly one error naming it, is in the output as it was in the
\* input, and is not counted in columns_anonymized; the call does not raise
\* and every later column is still processed.
C7_FailingColumnIsolated ==
    (pc # "idle" /\ _global_config.val.handle_nulls) =>
        /\ pc # "raised"
        /\ \A j \in DOMAIN snapshot.columns :
              (Processed(j) /\ StrategyFails(j)) =>
                  /\ ErrorsNaming(ColumnAt(j)) = 1
                  /\ heap[resultRef].data[ColumnAt(j)] = snapshot.data[ColumnAt(j)]
        /\ _stats.columns_anonymized =
              Cardinality({j \in DOMAIN snapshot.columns :
                              Processed(j) /\ HasRule(j) /\ ~StrategyFails(j)})
        /\ Len(_stats.errors) =
              Cardinality({j \in DOMAIN snapshot.columns : Processed(j) /\ StrategyFails(j)})
        /\ _stats.columns_processed =
              Cardinality({j \in DOMAIN snapshot.columns : Processed(j)})
        /\ (pc = "returned" /\ NRows(snapshot) > 0) =>
              \A j \in DOMAIN snapshot.columns : Processed(j)

\* C7 witness: the first column failed, the second was anonymized after it,
\* and the call returned
C7_LaterColumnAnonymized ==
    /\ pc = "returned" /\ _global_config.val.handle_nulls
    /\ Len(snapshot.columns) = 2
    /\ StrategyFails(1) /\ HasRule(2) /\ ~StrategyFails(2)
    /\ _stats.columns_anonymized = 1
    /\ heap[resultRef].data[ColumnAt(2)] # snapshot.data[ColumnAt(2)]

\* C8: with handle_nulls false, the first column whose strategy fails ends the
\* call with an AnonymizationError: no later column is processed, no dataset
\* is returned, and the error is in the statistics by then.
C8_FailFastStopsAtFirstFailure ==
    (pc # "idle" /\ ~_global_config.val.handle_nulls) =>
        /\ pc \in {"loop", "returned"} =>
              /\ _stats.errors = <<>>
              /\ \A j \in DOMAIN snapshot.columns : Processed(j) => ~StrategyFails(j)
        /\ pc = "raised" =>
              /\ StrategyFails(colIdx)
              /\ \A j \in 1..(colIdx - 1) : ~StrategyFails(j)
              /\ returned.kind = "exception" /\ returned.exc = "AnonymizationError"
              /\ Len(_stats.errors) = 1
              /\ _stats.errors[1].column = ColumnAt(colIdx)
              /\ _stats.columns_processed = colIdx
              /\ \A j \in DOMAIN snapshot.columns :
                    j >= colIdx => heap[resultRef].data[ColumnAt(j)] = snapshot.data[ColumnAt(j)]

\* C8 witness: the call raised at the first column while the second, which
\* has a rule, was never reached
C8_RaisedBeforeLaterColumn ==
    /\ pc = "raised" /\ ~_global_config.val.handle_nulls
    /\ colIdx = 1 /\ Len(snapshot.columns) = 2 /\ HasRule(2)
    /\ _stats.columns_processed = 1

(***************************************************************************)
(* Properties of the strategy functions called directly (SpecStrategy).    *)
(***************************************************************************)
\* C5: a null value goes through every strategy function unchanged and
\* without an error, whatever the parameters (and whether or not Faker is
\* there); a column that is transformed keeps a null at every position where
\* the input has one, and a column of nulls only is transformed without error.
C5_NullPassesThrough ==
    strategyCall.exc # "not called" =>
        /\ (strategyCall.op = "value" /\ IsNa(strategyCall.series[1])) =>
              (strategyCall.exc = "none" /\ strategyCall.vals = strategyCall.series)
        /\ (strategyCall.op = "column" /\ strategyCall.exc = "none") =>
              /\ Len(strategyCall.vals) = Len(strategyCall.series)
              /\ \A i \in DOMAIN strategyCall.series :
                    IsNa(strategyCall.series[i]) => IsNa(strategyCall.vals[i])
        /\ (strategyCall.op = "column"
             /\ \A i \in DOMAIN strategyCall.series : IsNa(strategyCall.series[i])) =>
              strategyCall.exc = "none"

\* C5 witness: pseudonymize_strategy has returned a null as it was, with
\* Faker unavailable
C5_NullPseudonymizedWithoutFaker ==
    /\ strategyCall.op = "value" /\ strategyCall.strategy = "pseudonymize"
    /\ ~Faker /\ IsNa(strategyCall.series[1])
    /\ strategyCall.exc = "none" /\ strategyCall.vals = <<Null>>

(***************************************************************************)
(* Properties of PrivacyValidator.validate (SpecValidator).                *)
(***************************************************************************)
\* the quasi-identifier columns the dataset has
QuasiIdentifiers == Available(thresholds.k_anonymity.quasi_identifiers, df_anonymized)

\* the size of row i's equivalence class, as the k-anonymity check computes it
ClassSizeOf(i) ==
    GroupSizes(df_anonymized, QuasiIdentifiers)[GroupKey(df_anonymized.rows[i], QuasiIdentifiers)]

\* validate has returned the result of the named check over a dataset with
\* rows and quasi-identifier columns
Checked(check_name) ==
    /\ results.raised = "none"
    /\ check_name \in DOMAIN results.checks
    /\ QuasiIdentifiers # <<>>
    /\ Len(df_anonymized.rows) > 0

\* C2: with allow_outliers enabled and min_k below required_k, the
\* k-anonymity check passes exactly when the rows lying in equivalence classes
\* smaller than required_k are at most max_outlier_percent percent of all rows.
C2_OutlierShareOfRows ==
    (/\ Checked("k_anonymity")
     /\ thresholds.k_anonymity.allow_outliers
     /\ results.checks["k_anonymity"].min_k < thresholds.k_anonymity.minimum_k)
    => (results.checks["k_anonymity"].passed <=>
            PercentAtMost(Cardinality({i \in DOMAIN df_anonymized.rows :
                                          ClassSizeOf(i) < thresholds.k_anonymity.minimum_k}),
                          Len(df_anonymized.rows),
                          thresholds.k_anonymity.max_outlier_percent))

\* C3: the group size the re-identification-risk check gives a row is the size
\* of the row's equivalence class of the k-anonymity check, missing
\* quasi-identifier values included, and high_risk_count is the number of rows
\* in classes of size 2 or less.
C3_RiskGroupSizeIsClassSize ==
    Checked("reidentification_risk") =>
        /\ \A i \in DOMAIN df_anonymized.rows :
              _group_size(df_anonymized, QuasiIdentifiers, i) = ClassSizeOf(i)
        /\ results.checks["reidentification_risk"].high_risk_count =
              Cardinality({i \in DOMAIN df_anonymized.rows : ClassSizeOf(i) <= 2})

(***************************************************************************)
(* Properties of ConfigLoader.load (SpecConfig).                           *)
(***************************************************************************)
\* load has been called on a document whose top level passes _validate_schema
\* and whose 'rules' is a dictionary
LoadedRules ==
    /\ loadOutcome.exc # "not called"
    /\ configFile.form = "dict" /\ configFile.hasRules /\ configFile.rulesIsDict
    /\ configFile.version # "notstr" /\ configFile.globalIsDict

\* the parameters hold the keys of exactly one Generalize family
ExactlyOneFamily(parameters) == (DOMAIN parameters \cap UNION valid_sets) \in valid_sets

\* C9: a Generalize rule is accepted only if its parameters form exactly one
\* complete family; a rule with keys of two families, or with an incomplete
\* numeric family, makes load raise ConfigurationError and is not among the
\* rules.
C9_GeneralizeExactlyOneFamily ==
    LoadedRules =>
        \A i \in DOMAIN configFile.rules :
            LET r == configFile.rules[i]
            IN  (r.isdict /\ r.strategy = "generalize" /\ ~ExactlyOneFamily(r.parameters)) =>
                    /\ loadOutcome.exc = "ConfigurationError"
                    /\ r.pii_type \notin DOMAIN _rules.val

\* a rule omits a parameter its strategy requires (Generalize: it has no
\* complete family)
OmitsRequired(r) ==
    IF r.strategy = "generalize"
    THEN ~\E valid_set \in valid_sets : valid_set \subseteq DOMAIN r.parameters
    ELSE _get_required_parameters(r.strategy) \ DOMAIN r.parameters # {}

\* a parameter of the rule has a value outside its constraint
ViolatesConstraint(r) ==
    LET p == r.parameters
        has(key) == key \in DOMAIN p
    IN  CASE r.strategy = "hash" ->
                has("algorithm") /\ (p["algorithm"].kind # "str"
                                      \/ p["algorithm"].str \notin allowed_algorithms)
          [] r.strategy = "redact_partial" ->
                \/ has("visible_chars") /\ (~IsInt(p["visible_chars"]) \/ p["visible_chars"].num < 0)
                \/ has("mask_char") /\ (p["mask_char"].kind # "str" \/ Len(p["mask_char"].str) # 1)
          [] r.strategy = "generalize" ->
                \/ has("bin_size") /\ (~IsNumber(p["bin_size"]) \/ p["bin_size"].num <= 0)
                \/ has("min_value") /\ has("max_value") /\ p["min_value"].num >= p["max_value"].num
                \/ has("precision") /\ (~IsInt(p["precision"]) \/ p["precision"].num <= 0)
                \/ has("octets") /\ (~IsInt(p["octets"]) \/ p["octets"].num \notin 1..4)
                \/ has("granularity") /\ p["granularity"].str \notin allowed_granularities
                \/ has("level") /\ p["level"].str \notin allowed_levels
          [] OTHER -> FALSE

RuleInvalid(r) ==
    \/ ~r.isdict
    \/ r.strategy = ""
    \/ r.strategy \notin AnonymizationStrategy
    \/ OmitsRequired(r)
    \/ ViolatesConstraint(r)

\* C10: load raises ConfigurationError whenever some rule has no strategy, an
\* unknown strategy, a required parameter missing or a value outside its
\* constraint, and a document whose rules have none of these loads without
\* error.
C10_LoadRejectsExactlyInvalidRules ==
    LoadedRules =>
        IF \E i \in DOMAIN configFile.rules : RuleInvalid(configFile.rules[i])
        THEN loadOutcome.exc = "ConfigurationError"
        ELSE loadOutcome.exc = "none"

\* the PII type of column j when a supplied column_mapping, empty or not, is
\* the only source of PII types, and the column's own name is used only when
\* no mapping is supplied; None is the empty text
MappedPiiTypeOf(j) ==
    IF ~column_mapping.isNone
    THEN IF ColumnAt(j) \in DOMAIN column_mapping.val THEN column_mapping.val[ColumnAt(j)] ELSE ""
    ELSE ColumnAt(j)

MappedHasRule(j) == MappedPiiTypeOf(j) # "" /\ MappedPiiTypeOf(j) \in DOMAIN _rules.val

\* C11: a column goes through its strategy exactly when its PII type (the
\* entry of the supplied column_mapping, empty mappings included, or the
\* column's own name when no mapping is supplied) has a rule; a column that
\* does not is in the output as it was in the input.
C11_TransformedIffMappedRule ==
    pc \in {"loop", "returned", "raised"} =>
        /\ _stats.columns_anonymized + Len(_stats.errors) =
              Cardinality({j \in DOMAIN snapshot.columns : Processed(j) /\ MappedHasRule(j)})
        /\ \A j \in DOMAIN snapshot.columns :
              (Processed(j) /\ ~MappedHasRule(j)) =>
                  /\ heap[resultRef].data[ColumnAt(j)] = snapshot.data[ColumnAt(j)]
                  /\ ErrorsNaming(ColumnAt(j)) = 0

(***************************************************************************)
(* generalize_strategy under validated numeric-binning rules               *)
(* (SpecBinning): the rule and the value are drawn at the start, the       *)
(* action is the call.                                                     *)
(***************************************************************************)
MaxBin == 4
MaxEdge == 6

\* numeric-binning parameters that pass RuleConfig.validate
BinningParameters ==
    {p \in {Dict([bin_size |-> IntV(b), min_value |-> IntV(lo), max_value |-> IntV(hi)]) :
                b \in 0..MaxBin, lo \in 0..1, hi \in 0..MaxEdge} :
        validate("generalize", p).exc = "none"}

\* numeric inputs: integers and halves, inside the declared range and on
\* either side of it
BinningValues ==
    {IntV(n) : n \in -2..(MaxEdge + 2)} \cup {FloatV(n) : n \in {0, MaxEdge}}
    \cup {HalfV(n) : n \in 0..(MaxEdge + 1)}

BinningCalls ==
    {Pending("value", "generalize", p, <<v>>) : p \in BinningParameters, v \in BinningValues}

InitBinning ==
    /\ ConfigIdle /\ StrategyIdle /\ strategyCall \in BinningCalls
    /\ AnonIdle /\ ValidatorIdle
NextBinning == StrategyCall
SpecBinning == InitBinning /\ [][NextBinning]_vars

\* the call of generalize_strategy has returned a label
Binned ==
    /\ strategyCall.op = "value" /\ strategyCall.strategy = "generalize"
    /\ strategyCall.exc = "none" /\ ~IsNa(strategyCall.series[1])

\* the parameters and twice the value of the call
BinSize == strategyCall.parameters["bin_size"].num
MinValue == strategyCall.parameters["min_value"].num
MaxValue == strategyCall.parameters["max_value"].num
Value2 == Twice(strategyCall.series[1])

\* the bounds [bin_start, bin_end] of the emitted label
EmittedBins ==
    {bin \in [bin_start : (0 - 2 * MaxEdge - MaxBin)..(2 * MaxEdge + MaxBin),
              bin_end : (0 - 2 * MaxEdge - MaxBin)..(2 * MaxEdge + MaxBin)] :
        RangeLabel(bin) = strategyCall.vals[1]}

\* C12: under a validated numeric-binning rule, the range emitted for any
\* numeric input lies inside the declared range (min_value <= bin_start and
\* bin_end <= max_value); an input above max_value gets the label of
\* max_value and an input below min_value the label of min_value.
C12_RangeInsideDeclared ==
    Binned =>
        /\ EmittedBins # {}
        /\ \A bin \in EmittedBins : MinValue <= bin.bin_start /\ bin.bin_end <= MaxValue
        /\ Value2 > 2 * MaxValue =>
              strategyCall.vals[1] = generalize_strategy(IntV(MaxValue), strategyCall.parameters).val
        /\ Value2 < 2 * MinValue =>
              strategyCall.vals[1] = generalize_strategy(IntV(MinValue), strategyCall.parameters).val

\* C13: under a validated numeric-binning rule, a value v within
\* [min_value, max_value] gets a label "bin_start-bin_end" with
\* bin_start <= v <= bin_end, and bin_end - bin_start + 1 = bin_size for
\* every bin but the final one (the one that ends at max_value).
C13_ValueInsideBin ==
    (Binned /\ 2 * MinValue <= Value2 /\ Value2 <= 2 * MaxValue) =>
        /\ EmittedBins # {}
        /\ \A bin \in EmittedBins :
              /\ 2 * bin.bin_start <= Value2 /\ Value2 <= 2 * bin.bin_end
              /\ bin.bin_end # MaxValue => bin.bin_end - bin.bin_start + 1 = BinSize

(***************************************************************************)
(* Further properties of PrivacyValidator.validate (SpecValidator).        *)
(***************************************************************************)
\* rows i and j agree on every quasi-identifier column of the dataset, a
\* missing value agreeing with a missing value
SameClass(i, j) ==
    \A q \in DOMAIN QuasiIdentifiers :
        df_anonymized.rows[i][QuasiIdentifiers[q]] = df_anonymized.rows[j][QuasiIdentifiers[q]]

\* the equivalence classes, as sets of row positions
Classes ==
    {{j \in DOMAIN df_anonymized.rows : SameClass(i, j)} : i \in DOMAIN df_anonymized.rows}

\* C14: with outlier tolerance off, min_k is the size of the smallest
\* equivalence class over the quasi-identifier columns (rows with a missing
\* value counted, in classes of their own), avg_k is the mean class size, and
\* the check passes exactly when min_k >= required_k.
C14_MinAndMeanClassSize ==
    (Checked("k_anonymity") /\ ~thresholds.k_anonymity.allow_outliers) =>
        LET check == results.checks["k_anonymity"]
        IN  /\ \E class \in Classes : check.min_k = Cardinality(class)
            /\ \A class \in Classes : check.min_k <= Cardinality(class)
            /\ check.avg_k.sum * Cardinality(Classes) = Len(df_anonymized.rows) * check.avg_k.n
            /\ check.passed <=> check.min_k >= thresholds.k_anonymity.minimum_k

\* C14 witness: a row with a missing age is alone in its class beside a class
\* of two, so min_k is 1, avg_k is 3/2 and the check fails
C14_MissingValueClassOfOne ==
    /\ Checked("k_anonymity") /\ ~thresholds.k_anonymity.allow_outliers
    /\ "age" \in df_anonymized.columns /\ Len(df_anonymized.rows) = 3
    /\ Cardinality({i \in DOMAIN df_anonymized.rows : IsNa(df_anonymized.rows[i]["age"])}) = 1
    /\ Cardinality(Classes) = 2
    /\ results.checks["k_anonymity"].min_k = 1
    /\ results.checks["k_anonymity"].avg_k = Ratio(3, 2)
    /\ ~results.checks["k_anonymity"].passed

\* a declared quasi-identifier column is absent from the dataset while
\* another is present
PartlyAbsent ==
    /\ QuasiIdentifiers # <<>>
    /\ Len(QuasiIdentifiers) < Len(thresholds.k_anonymity.quasi_identifiers)

\* C15: when a declared quasi-identifier column is absent from the dataset
\* while others are present, the k-anonymity check neither passes nor reports
\* a min_k taken from a grouping over the remaining columns.
C15_NoGroupingOverRemainingColumns ==
    (results.raised = "none" /\ "k_anonymity" \in DOMAIN results.checks /\ PartlyAbsent) =>
        /\ ~results.checks["k_anonymity"].passed
        /\ results.checks["k_anonymity"].min_k = 0

\* C16: for every dataset, one with no rows included, and every threshold
\* configuration, validate returns a result record and raises nothing.
C16_ValidateNeverRaises ==
    results.raised \in {"not called", "none"}

\* the rows whose equivalence class has between lo and hi rows
RowsInClassesOf(lo, hi) ==
    {i \in DOMAIN df_anonymized.rows :
        \E class \in Classes : i \in class /\ lo <= Cardinality(class) /\ Cardinality(class) <= hi}

\* C17: the re-identification check puts every row in exactly one of high
\* risk (equivalence-class size <= 2), medium (3..4) and low (>= 5), so the
\* three counts add up to the number of rows, and it passes exactly when
\* high_risk_count / rows x 100 <= max_risk_percent.
C17_RiskPartition ==
    Checked("reidentification_risk") =>
        LET check == results.checks["reidentification_risk"]
            rows == Len(df_anonymized.rows)
        IN  /\ check.high_risk_count = Cardinality(RowsInClassesOf(1, 2))
            /\ check.medium_risk_count = Cardinality(RowsInClassesOf(3, 4))
            /\ check.low_risk_count = Cardinality(RowsInClassesOf(5, rows))
            /\ check.high_risk_count + check.medium_risk_count + check.low_risk_count = rows
            /\ check.passed <=>
                  PercentAtMost(check.high_risk_count, rows,
                                thresholds.reidentification_risk.max_risk_percent)

\* the sensitive attribute columns the dataset has
SensitiveAttributes == Available(thresholds.l_diversity.sensitive_attributes, df_anonymized)

\* the number of distinct values (a missing value is none) of an attribute
\* among the rows of a class
DistinctIn(class, attr) == Cardinality({df_anonymized.rows[i][attr] : i \in class} \ {Null})

\* C18: with a sensitive attribute and a quasi-identifier column present,
\* min_l is the smallest number of distinct values that any available
\* sensitive attribute has inside any equivalence class, and the l-diversity
\* check passes exactly when min_l >= required_l.
C18_MinOverAttributesAndClasses ==
    (Checked("l_diversity") /\ SensitiveAttributes # <<>>) =>
        LET check == results.checks["l_diversity"]
        IN  /\ \E a \in DOMAIN SensitiveAttributes : \E class \in Classes :
                  check.min_l = DistinctIn(class, SensitiveAttributes[a])
            /\ \A a \in DOMAIN SensitiveAttributes : \A class \in Classes :
                  check.min_l <= DistinctIn(class, SensitiveAttributes[a])
            /\ check.passed <=> check.min_l >= thresholds.l_diversity.minimum_l

\* C18 witness: two sensitive attributes; diagnosis has two values in every
\* class, age has one in some class, and that decides: min_l is 1 and the
\* check fails
C18_WorstAttributeDecides ==
    /\ Checked("l_diversity") /\ SensitiveAttributes = <<"diagnosis", "age">>
    /\ \A class \in Classes : DistinctIn(class, "diagnosis") >= 2
    /\ \E class \in Classes : DistinctIn(class, "age") = 1
    /\ results.checks["l_diversity"].min_l = 1
    /\ ~results.checks["l_diversity"].passed

\* the checks the thresholds enable
EnabledChecks == {check_name \in {"k_anonymity", "l_diversity", "reidentification_risk"} :
                    thresholds[check_name].enabled}

\* C19: the result of validate has an entry for exactly the enabled checks and
\* its passed flag is true exactly when every enabled check passed (true when
\* none is enabled); a disabled check is not run: it neither fails the result
\* nor makes the call raise.
C19_PassedIsConjunctionOfEnabled ==
    /\ results.raised = "none" =>
          /\ DOMAIN results.checks = EnabledChecks
          /\ results.passed <=> \A check_name \in EnabledChecks : results.checks[check_name].passed
    /\ (results.raised # "not called"
        /\ \A check_name \in EnabledChecks :
              RunCheck(check_name, df_anonymized, thresholds).raised = "none")
       => results.raised = "none"

\* C19 witness: only the k-anonymity check is enabled and it passed, so the
\* result passed, on a dataset that the disabled re-identification check
\* would have failed
C19_DisabledCheckIgnored ==
    /\ results.raised = "none" /\ results.passed
    /\ DOMAIN results.checks = {"k_anonymity"}
    /\ Len(df_anonymized.rows) > 0
    /\ ~RunCheck("reidentification_risk", df_anonymized, thresholds).passed

(***************************************************************************)
(* pseudonymize_strategy called again and again on varying values,         *)
(* locales and seed_based settings, the pseudonymization cache being       *)
(* cleared at any time (SpecPseudonymize).                                 *)
(***************************************************************************)
DE_DE == <<"d", "e", "_", "D", "E">>

\* 34 and "34" have the same string form
PseudonymizeValues == {IntV(34), StrV(<<"3", "4">>), StrV(<<"a", "b">>)}

PseudonymizeCallParameters ==
    {Dict([seed_based |-> BoolV(b), locale |-> l]) :
        b \in BOOLEAN, l \in {Absent, StrV(EN_US), StrV(DE_DE)}}

\* one call of pseudonymize_strategy
PseudonymizeCall ==
    /\ \E value \in PseudonymizeValues : \E parameters \in PseudonymizeCallParameters :
       \E entropy \in EntropySeeds :
            LET out == pseudonymize_strategy(value, parameters,
                                             StrategyState(Faker, _faker_cache, _pseudo_cache),
                                             entropy)
            IN  /\ DrawsBounded(out.st)
                /\ strategyCall' =
                        [Pending("value", "pseudonymize", parameters, <<value>>)
                            EXCEPT !.exc = out.exc, !.cause = out.exc, !.msg = out.msg,
                                   !.vals = IF out.exc = "none" THEN <<out.val>> ELSE <<>>]
                /\ _faker_cache' = out.st._faker_cache
                /\ _pseudo_cache' = out.st._pseudo_cache
    /\ UNCHANGED <<Faker, runs, configVars, anonVars, validatorVars>>

\* AnonymizationStrategies._pseudo_cache.clear()
ClearPseudoCache ==
    /\ _pseudo_cache # EmptyMap
    /\ _pseudo_cache' = EmptyMap
    /\ UNCHANGED <<Faker, _faker_cache, strategyCall, runs, configVars, anonVars, validatorVars>>

InitPseudonymize ==
    /\ ConfigIdle /\ StrategyIdle /\ strategyCall = NoCall
    /\ AnonIdle /\ ValidatorIdle
NextPseudonymize == PseudonymizeCall \/ ClearPseudoCache
SpecPseudonymize == InitPseudonymize /\ [][NextPseudonymize]_vars

\* what generating afresh gives for a locale and the string form of a value:
\* the first name of the locale's generator seeded with the value's digest
FreshName(locale, str_value) == name(locale, seed_instance(hexdigest(MD5, str_value)))

\* the last call was a seed_based one that returned a value
SeedBasedCall ==
    /\ strategyCall.op = "value" /\ strategyCall.strategy = "pseudonymize"
    /\ strategyCall.exc = "none"
    /\ Truthy(GetOr(strategyCall.parameters, "seed_based", BoolV(TRUE)))

CallLocale == GetOr(strategyCall.parameters, "locale", StrV(EN_US)).str

\* C20: with seed_based true, pseudonymize_strategy returns for a (locale,
\* string form of the value) the value a fresh generation gives, whatever
\* calls on other values, other locales or with seed_based false came in
\* between and whether or not the cache was cleared; every cached entry is
\* what a fresh generation for its key gives.
C20_SeedBasedConsistent ==
    /\ \A key \in DOMAIN _pseudo_cache : _pseudo_cache[key] = FreshName(key[1], key[2])
    /\ SeedBasedCall =>
          strategyCall.vals[1] = FreshName(CallLocale, StrOf(strategyCall.series[1]))

\* C20 witness: a seed_based call on "ab" has been answered while the
\* en_US generator stands two draws after being seeded with another value and
\* a de_DE generator exists: the answer came from the cache, after calls on
\* another value, with seed_based false and on another locale
C20_AnsweredAfterOtherCalls ==
    /\ SeedBasedCall /\ CallLocale = EN_US
    /\ strategyCall.series = <<StrV(<<"a", "b">>)>>
    /\ EN_US \in DOMAIN _faker_cache /\ DE_DE \in DOMAIN _faker_cache
    /\ _faker_cache[EN_US].seed = hexdigest(MD5, <<"3", "4">>)
    /\ _faker_cache[EN_US].draws = 2

(***************************************************************************)
(* Two runs calling pseudonymize_strategy with seed_based true at the same *)
(* time (SpecConcurrent).  A run's call advances statement by statement;   *)
(* the two accesses to _pseudo_cache are single steps, as under a mutex,   *)
(* and so is the get-or-create of the locale's generator.                  *)
(***************************************************************************)
ConcurrentValues == {StrV(<<"a", "b">>), StrV(<<"3", "4">>)}
ConcurrentLocales == {EN_US, DE_DE}

\* pseudonymize_strategy up to `faker = _faker_cache[locale]`
RunBegin(t) ==
    /\ runs[t].pc \in {"idle", "done"}
    /\ Faker
    /\ \E value \in ConcurrentValues : \E locale \in ConcurrentLocales :
       \E entropy \in EntropySeeds :
            /\ _faker_cache' = IF locale \in DOMAIN _faker_cache THEN _faker_cache
                               ELSE Put(_faker_cache, locale, NewFaker(entropy))
            /\ runs' = [runs EXCEPT ![t] = [IdleRun EXCEPT !.pc = "lookup", !.value = value,
                                                           !.locale = locale]]
    /\ UNCHANGED <<Faker, _pseudo_cache, strategyCall, configVars, anonVars, validatorVars>>

\* `if cache_key in _pseudo_cache: return _pseudo_cache[cache_key]`
RunLookup(t) ==
    /\ runs[t].pc = "lookup"
    /\ LET cache_key == <<runs[t].locale, StrOf(runs[t].value)>>
       IN  runs' = [runs EXCEPT ![t] =
                        IF cache_key \in DOMAIN _pseudo_cache
                        THEN [@ EXCEPT !.pc = "done", !.result = _pseudo_cache[cache_key]]
                        ELSE [@ EXCEPT !.pc = "seed"]]
    /\ UNCHANGED <<Faker, _faker_cache, _pseudo_cache, strategyCall, configVars, anonVars,
                   validatorVars>>

\* `faker.seed_instance(seed)` on the generator the locale's runs share
RunSeed(t) ==
    /\ runs[t].pc = "seed"
    /\ _faker_cache' = Put(_faker_cache, runs[t].locale,
                           seed_instance(hexdigest(MD5, StrOf(runs[t].value))))
    /\ runs' = [runs EXCEPT ![t].pc = "name"]
    /\ UNCHANGED <<Faker, _pseudo_cache, strategyCall, configVars, anonVars, validatorVars>>

\* `fake_value = faker.name()`
RunName(t) ==
    /\ runs[t].pc = "name"
    /\ LET faker == _faker_cache[runs[t].locale]
       IN  /\ runs' = [runs EXCEPT ![t].pc = "store",
                                   ![t].fake_value = name(runs[t].locale, faker)]
           /\ _faker_cache' = Put(_faker_cache, runs[t].locale,
                                  [faker EXCEPT !.draws = faker.draws + 1])
    /\ UNCHANGED <<Faker, _pseudo_cache, strategyCall, configVars, anonVars, validatorVars>>

\* `_pseudo_cache[cache_key] = fake_value; return fake_value`
RunStore(t) ==
    /\ runs[t].pc = "store"
    /\ _pseudo_cache' = Put(_pseudo_cache, <<runs[t].locale, StrOf(runs[t].value)>>,
                            runs[t].fake_value)
    /\ runs' = [runs EXCEPT ![t].pc = "done", ![t].result = runs[t].fake_value]
    /\ UNCHANGED <<Faker, _faker_cache, strategyCall, configVars, anonVars, validatorVars>>

InitConcurrent ==
    /\ ConfigIdle /\ StrategyIdle /\ strategyCall = NoCall
    /\ AnonIdle /\ ValidatorIdle
NextConcurrent ==
    \E t \in Threads : RunBegin(t) \/ RunLookup(t) \/ RunSeed(t) \/ RunName(t) \/ RunStore(t)
SpecConcurrent == InitConcurrent /\ [][NextConcurrent]_vars

\* C21: with every access to the pseudonymization cache atomic, each run's
\* seed_based pseudonymize returns the fake value a sequential execution gives
\* for its input, and the cache holds only such values, however the runs
\* interleave.
C21_InterleavingIndependent ==
    /\ \A key \in DOMAIN _pseudo_cache : _pseudo_cache[key] = FreshName(key[1], key[2])
    /\ \A t \in Threads :
          runs[t].pc = "done" => runs[t].result = FreshName(runs[t].locale, StrOf(runs[t].value))

(***************************************************************************)
(* anonymize called again and again on one input, other anonymization      *)
(* runs of the process coming before and in between (SpecRepeat).  Another *)
(* run reaches the state this Anonymizer sees only through the class-level *)
(* caches of AnonymizationStrategies, that is through the                  *)
(* pseudonymize_strategy calls it makes.                                   *)
(***************************************************************************)
\* a pseudonymize_strategy call made by another run, between two calls
OtherRun ==
    /\ pc # "loop"
    /\ \E value \in {IntV(34), StrV(<<"a", "b">>)} : \E seed_based \in BOOLEAN :
       \E entropy \in EntropySeeds :
            LET out == pseudonymize_strategy(value, Dict([seed_based |-> BoolV(seed_based)]),
                                             StrategyState(Faker, _faker_cache, _pseudo_cache),
                                             entropy)
            IN  /\ DrawsBounded(out.st)
                /\ _faker_cache' = out.st._faker_cache
                /\ _pseudo_cache' = out.st._pseudo_cache
    /\ UNCHANGED <<Faker, strategyCall, runs, configVars, anonVars, validatorVars>>

RepeatFrames == {f \in Frames : NRows(f) = 1}

\* rule sets of Hash, seed-based Pseudonymize, Generalize and redaction rules
RepeatConfigFiles ==
    {WellFormed(<<r1, r2>>, g) :
        r1 \in {r \in AnonRules("email") : r.strategy \in {"hash", "pseudonymize"}},
        r2 \in {r \in AnonRules("age") :
                    r.strategy \in {"pseudonymize", "generalize", "redact_partial"}},
        g \in RawGlobals}

InitRepeat ==
    /\ LoadedInit(RepeatConfigFiles)
    /\ StrategyInit /\ strategyCall = NoCall
    /\ AnonInit /\ snapshot \in RepeatFrames /\ ValidatorIdle
NextRepeat == AnonymizeCall \/ ProcessColumn \/ AnonymizeReturn \/ OtherRun
SpecRepeat == InitRepeat /\ [][NextRepeat]_vars

\* _anonymize_column on column j of the input in a process that has run
\* nothing before: both caches empty
FreshColumn(j) ==
    _anonymize_column(snapshot.data[ColumnAt(j)], RuleOf(j), _global_config.val,
                      StrategyState(Faker, EmptyMap, EmptyMap),
                      CHOOSE entropy \in EntropySeeds : TRUE)

\* the column anonymize returns for column j in such a process
FreshResult(j) ==
    IF HasRule(j) /\ FreshColumn(j).exc = "none" THEN FreshColumn(j).vals
    ELSE snapshot.data[ColumnAt(j)]

\* C22: what an anonymize call gives back is fixed by the input dataset, the
\* column mapping and the rule set (Hash, seed-based Pseudonymize, Generalize
\* and redaction rules) alone: the returned dataset is the one a process that
\* ran nothing before returns, and a call raises only where that one raises,
\* so two calls on the same input return equal datasets whatever ran before
\* or between them.
C22_ResultFixedByInput ==
    /\ (pc = "returned" /\ returned.kind = "frame") =>
          /\ heap[returned.ref].columns = snapshot.columns
          /\ \A j \in DOMAIN snapshot.columns :
                heap[returned.ref].data[ColumnAt(j)] = FreshResult(j)
    /\ pc = "raised" =>
          /\ HasRule(colIdx) /\ FreshColumn(colIdx).exc # "none"
          /\ FailFast(_global_config.val)


\* C22 witness: a call has returned a dataset whose email column "ab" was
\* pseudonymized, while the en_US generator stands two draws after a seeding
\* with another value: other runs used the generator and the answer is still
\* the one of a process that ran nothing before
C22_ReturnedAfterOtherRuns ==
    /\ pc = "returned" /\ returned.kind = "frame"
    /\ HasRule(1) /\ RuleOf(1).strategy = "pseudonymize"
    /\ snapshot.data[ColumnAt(1)] = <<StrV(<<"a", "b">>)>>
    /\ heap[returned.ref].data[ColumnAt(1)] = <<FreshName(EN_US, <<"a", "b">>)>>
    /\ EN_US \in DOMAIN _faker_cache
    /\ _faker_cache[EN_US].seed = hexdigest(MD5, <<"3", "4">>)
    /\ _faker_cache[EN_US].draws = 2


\* the last direct call was hash_strategy on a non-null value and returned
HashCall ==
    /\ strategyCall.op = "value" /\ strategyCall.strategy = "hash"
    /\ strategyCall.exc = "none"
    /\ ~IsNa(strategyCall.series[1])

HashAlgorithm == GetOr(strategyCall.parameters, "algorithm", StrV(SHA256)).str
HashSalted == Truthy(GetOr(strategyCall.parameters, "salt", BoolV(FALSE)))

\* C23: hash_strategy, called once or again, returns the digest that the
\* string form of the value, the algorithm and the salt flag fix: without salt
\* the digest of the string form, with salt the digest of (the first 8
\* characters of the MD5 digest of the string form, followed by the string
\* form), which is not the unsalted digest.
C23_HashOfStringForm ==
    HashCall =>
        LET s == StrOf(strategyCall.series[1])
            unsalted == StrV(hexdigest(HashAlgorithm, s))
        IN  IF HashSalted
            THEN /\ strategyCall.vals[1] =
                        StrV(hexdigest(HashAlgorithm, Prefix(hexdigest(MD5, s), 8) \o s))
                 /\ strategyCall.vals[1] # unsalted
            ELSE strategyCall.vals[1] = unsalted

\* C23 witness: the number 34 has been hashed with salt = true
C23_SaltedHashReturned ==
    /\ HashCall /\ HashSalted
    /\ strategyCall.series[1] = IntV(34)


(***************************************************************************)
(* redact_partial_strategy called with the parameters of a rule that       *)
(* passed validation, on texts of every length up to MaxLen, a number and  *)
(* a telephone number (SpecRedact).                                        *)
(***************************************************************************)
MaxLen == 3
MaxVisible == 4

PHONE == <<"5", "5", "5", "-", "1", "2", "3", "4">>

RedactValues ==
    {Null, IntV(34), StrV(PHONE)}
    \cup UNION {{StrV(s) : s \in [1..n -> {"a", "b"}]} : n \in 0..MaxLen}

\* the parameters a redact_partial rule may carry: RuleConfig.validate lets
\* through those with a non-negative integer and a single character
RedactParameters ==
    {p \in {Dict([visible_chars |-> IntV(n), mask_char |-> StrV(m)]) :
                n \in -1..MaxVisible, m \in {<<"*">>, <<"#">>, <<"*", "*">>}} :
        validate("redact_partial", p).exc = "none"}

RedactCalls ==
    {Pending("value", "redact_partial", parameters, <<value>>) :
        parameters \in RedactParameters, value \in RedactValues}

InitRedact ==
    /\ ConfigIdle /\ StrategyIdle /\ strategyCall \in RedactCalls
    /\ AnonIdle /\ ValidatorIdle
NextRedact == StrategyCall
SpecRedact == InitRedact /\ [][NextRedact]_vars

\* the last direct call was redact_partial_strategy on a non-null value and
\* has ended
RedactCall ==
    /\ strategyCall.op = "value" /\ strategyCall.strategy = "redact_partial"
    /\ strategyCall.exc # "not called"
    /\ ~IsNa(strategyCall.series[1])

\* C24: for a non-null value of string form s and a validated rule with
\* visible_chars n and mask_char m, redact_partial returns a text as long as s
\* whose last min(n, len(s)) characters are those of s and whose other
\* characters are all m; "555-1234" with n = 4 and m = "*" gives "****1234".
C24_LastCharactersVisible ==
    RedactCall =>
        LET s == StrOf(strategyCall.series[1])
            n == strategyCall.parameters["visible_chars"].num
            m == strategyCall.parameters["mask_char"].str[1]
            k == Min(n, Len(s))
        IN  /\ strategyCall.exc = "none"
            /\ strategyCall.vals[1].kind = "str"
            /\ Len(strategyCall.vals[1].str) = Len(s)
            /\ \A i \in 1..Len(s) :
                  strategyCall.vals[1].str[i] = IF i > Len(s) - k THEN s[i] ELSE m
            /\ (s = PHONE /\ n = 4 /\ m = "*") =>
                  strategyCall.vals[1].str = <<"*", "*", "*", "*", "1", "2", "3", "4">>

\* C24 witness: a three-character text has been redacted with one visible
\* character: neither unchanged nor a full mask
C24_PartlyMasked ==
    /\ RedactCall
    /\ Len(StrOf(strategyCall.series[1])) = 3
    /\ strategyCall.parameters["visible_chars"].num = 1
    /\ strategyCall.vals # <<>>


\* the columns the current call has been through, among the first n
ThroughColumns(n) == {j \in 1..n : Processed(j)}

\* those it transformed, and those whose transformation raised
ColumnTransformed(j) == Processed(j) /\ HasRule(j) /\ FreshColumn(j).exc = "none"
ColumnFailed(j) == Processed(j) /\ HasRule(j) /\ FreshColumn(j).exc # "none"

\* the error messages the current call has appended, for the first n columns
RECURSIVE ErrorsOfCall(_)
ErrorsOfCall(n) ==
    IF n = 0 THEN <<>>
    ELSE IF ColumnFailed(n)
    THEN Append(ErrorsOfCall(n - 1), ErrorMsg(ColumnAt(n), FreshColumn(n)))
    ELSE ErrorsOfCall(n - 1)

\* C25: whatever calls were made on the Anonymizer before, the statistics are
\* those of the most recent call alone: its rows, the columns it has been
\* through, the columns it transformed and the errors it recorded, in order.
C25_StatisticsOfLastCallOnly ==
    LET n == Len(snapshot.columns)
    IN  pc # "idle" =>
            _stats = [columns_processed |-> Cardinality(ThroughColumns(n)),
                      columns_anonymized |-> Cardinality({j \in 1..n : ColumnTransformed(j)}),
                      rows_processed |-> NRows(snapshot),
                      errors |-> ErrorsOfCall(n)]

\* C25 witness: a call has returned having transformed the email column only
\* and recorded no error, while the pseudonymization cache holds the names of
\* the values of both columns: the age column was transformed by an earlier
\* call, with another column mapping, and is not counted
C25_EarlierCallNotCounted ==
    /\ pc = "returned"
    /\ _stats.columns_anonymized = 1 /\ _stats.columns_processed = 2
    /\ _stats.errors = <<>>
    /\ ColumnTransformed(1) /\ ~HasRule(2)
    /\ snapshot.data["email"] = <<StrV(<<"a", "b">>)>>
    /\ snapshot.data["age"] = <<IntV(34)>>
    /\ DOMAIN _pseudo_cache = {<<EN_US, <<"a", "b">>>>, <<EN_US, <<"3", "4">>>>}


\* C26: after anonymize has returned normally, columns_processed is the number
\* of columns of the input, rows_processed the number of its rows and
\* columns_anonymized the number of columns that had a resolvable rule and
\* were transformed without error, for every input, a dataset with columns and
\* no rows included.
C26_CountersAfterReturn ==
    (pc = "returned" /\ returned.kind = "frame") =>
        /\ _stats.columns_processed = Len(snapshot.columns)
        /\ _stats.rows_processed = NRows(snapshot)
        /\ _stats.columns_anonymized =
              Cardinality({j \in DOMAIN snapshot.columns : ColumnTransformed(j)})


(***************************************************************************)
(* get_statistics and a caller that changes the record it was given,       *)
(* between anonymize calls (SpecStatistics).                               *)
(***************************************************************************)
\* Anonymizer.get_statistics: `return self._stats.copy()`, a new dictionary
\* whose values are those of _stats: the counters, and the errors list itself
GetStatistics ==
    /\ pc # "loop"
    /\ handed' = [taken |-> TRUE,
                  columns_processed |-> _stats.columns_processed,
                  columns_anonymized |-> _stats.columns_anonymized,
                  rows_processed |-> _stats.rows_processed,
                  same_list |-> TRUE, errors |-> <<>>]
    /\ UNCHANGED <<heap, dfRef, snapshot, column_mapping, resultRef, colIdx, _stats, pc,
                   returned, configVars, strategyVars, validatorVars>>

\* the errors of the record the caller holds
HandedErrors == IF handed.same_list THEN _stats.errors ELSE handed.errors

\* the record as the caller reads it
HandedRecord ==
    [columns_processed |-> handed.columns_processed,
     columns_anonymized |-> handed.columns_anonymized,
     rows_processed |-> handed.rows_processed,
     errors |-> HandedErrors]

\* the caller: stats['columns_processed'] = -1
MutateRecord ==
    /\ pc # "loop" /\ handed.taken
    /\ handed.columns_processed # -1
    /\ handed' = [handed EXCEPT !.columns_processed = -1]
    /\ UNCHANGED <<heap, dfRef, snapshot, column_mapping, resultRef, colIdx, _stats, pc,
                   returned, configVars, strategyVars, validatorVars>>

CallerNote == [column |-> "", strategy |-> "", cause |-> "caller", msg |-> ""]

\* the caller: stats['errors'].append(note), once per list
MutateErrors ==
    /\ pc # "loop" /\ handed.taken
    /\ \A i \in DOMAIN HandedErrors : HandedErrors[i] # CallerNote
    /\ IF handed.same_list
       THEN /\ _stats' = [_stats EXCEPT !.errors = Append(@, CallerNote)]
            /\ UNCHANGED handed
       ELSE /\ handed' = [handed EXCEPT !.errors = Append(@, CallerNote)]
            /\ UNCHANGED _stats
    /\ UNCHANGED <<heap, dfRef, snapshot, column_mapping, resultRef, colIdx, pc,
                   returned, configVars, strategyVars, validatorVars>>

InitStatistics == InitRepeat
NextStatistics ==
    \/ AnonymizeCall \/ ProcessColumn \/ AnonymizeReturn
    \/ GetStatistics \/ MutateRecord \/ MutateErrors
SpecStatistics == InitStatistics /\ [][NextStatistics]_vars

\* C27: the record get_statistics returns is a snapshot: when the caller
\* changes the record or its errors sequence, what get_statistics returns
\* (the contents of _stats) stays as it was, and a step of a later anonymize
\* call leaves the record the caller holds as it was.
C27_StatisticsSnapshot ==
    [][/\ (MutateRecord \/ MutateErrors) => _stats' = _stats
       /\ (AnonymizeCall \/ ProcessColumn \/ AnonymizeReturn) =>
              (handed.taken => HandedRecord' = HandedRecord)]_vars


(***************************************************************************)
(* The accessors of ConfigLoader, as what a call made in the current state *)
(* gives: the exception raised, or the value returned.                     *)
(***************************************************************************)
NotLoaded == [exc |-> "ConfigurationError", msg |-> "Configuration not loaded", val |-> {}]
Gives(v) == [exc |-> "none", msg |-> "", val |-> v]

get_rule(pii_type) ==
    IF _rules.isNone THEN NotLoaded
    ELSE Gives(IF pii_type \in DOMAIN _rules.val THEN {_rules.val[pii_type]} ELSE {})

get_all_rules == IF _rules.isNone THEN NotLoaded ELSE Gives(_rules.val)

get_global_config == IF _global_config.isNone THEN NotLoaded ELSE Gives(_global_config.val)

get_pii_types == IF _rules.isNone THEN NotLoaded ELSE Gives(DOMAIN _rules.val)

has_rule(pii_type) ==
    IF _rules.isNone THEN NotLoaded ELSE Gives(pii_type \in DOMAIN _rules.val)

\* C28: unless a load() call on the loader has completed successfully, every
\* accessor raises ConfigurationError; in particular after a load() that
\* raised on an invalid rule no rule parsed before the failure can be read.
C28_AccessorsRaiseUnlessLoaded ==
    loadOutcome.exc # "none" =>
        /\ \A pii_type \in {"email", "age"} :
              /\ get_rule(pii_type).exc = "ConfigurationError"
              /\ has_rule(pii_type).exc = "ConfigurationError"
        /\ get_all_rules.exc = "ConfigurationError"
        /\ get_pii_types.exc = "ConfigurationError"
        /\ get_global_config.exc = "ConfigurationError"


\* C29: for a validated numeric-binning rule the labels emitted over the
\* values of [min_value, max_value] denote pairwise disjoint intervals: a
\* value of the range that lies inside the interval some value of the range is
\* labelled with carries that very label.
C29_LabelsDisjoint ==
    (Binned /\ 2 * MinValue <= Value2 /\ Value2 <= 2 * MaxValue) =>
        \A other2 \in (2 * MinValue)..(2 * MaxValue) :
            LET bin == generalize_bin(other2, BinSize, MinValue, MaxValue)
            IN  (2 * bin.bin_start <= Value2 /\ Value2 <= 2 * bin.bin_end)
                    => RangeLabel(bin) = strategyCall.vals[1]


\* C30: the total_equivalence_classes field of the k-anonymity result is the
\* number of equivalence classes, the distinct combinations of
\* quasi-identifier values present in the dataset, also when several classes
\* have the same size.
C30_TotalEquivalenceClasses ==
    (Checked("k_anonymity") /\ results.checks["k_anonymity"].raised = "none") =>
        results.checks["k_anonymity"].total_equivalence_classes = Cardinality(Classes)

====
